---- MODULE Spec2Model ----
(***************************************************************************)
(* TabLimiter: the limit-enforcement engine of extension/background.js.    *)
(*                                                                         *)
(* The host browser owns the tabs and windows; the service worker reads    *)
(* them through chrome.tabs.query / chrome.windows.getAll and issues       *)
(* remove / move / create commands.  Every await and every host callback   *)
(* of the source is one step of the model: the query result is the state   *)
(* at that step, and a command issued by a continuation takes effect in    *)
(* the step that issues it.                                                *)
(***************************************************************************)
EXTENDS Integers, Sequences, FiniteSets, Bags

\* ------------------------------------------------------------------ bounds
SmallInit == 2          \* tabs open before the first creation event (Spec, SpecBadge)
LargeInit == 4          \* tabs open before the first creation event (SpecReloc)
MaxCreate == 2          \* tab-creation events of one behaviour of Spec
MaxWins == 4            \* window identifiers
MaxJobs == 2            \* badge refreshes in flight
MaxEvents == 2          \* focus changes and tab updates of one behaviour of SpecBadge

\* --------------------------------------------------------------- constants
DefaultMaxTotal == 50
DefaultMaxWindow == 20
DefaultMaxDomain == 10
FallbackDomainLimit == 10

TabIds == 1..(LargeInit + MaxCreate)
WinIds == 1..MaxWins

VARIABLES
    store,          \* chrome.storage.sync: key -> [set, v]
    toSet,          \* init(): the defaults computed by the get callback, not yet written
    orig,           \* the store as it was before init() (history)
    tabs,           \* host: tab id -> [win, pinned, url]; win = 0: no such tab
    focused,        \* host: the current (last focused) window
    budget,         \* creation events left
    events,         \* events of the environment left: focus changes, tab updates,
                    \* tabs closed by the user, host calls that fail
    cyc,            \* one handleTabCreated cycle per created tab
    domainCounts,   \* DomainTracker.domainCounts
    cacheFresh,     \* Date.now() - DomainTracker.lastUpdate <= updateInterval
    badge,          \* the badge text
    jobs,           \* updateBadge calls whose two queries are in flight
    lastWrite,      \* how the latest badge write came about: "cleared" or "min" (history)
    ret             \* the latest call of a DomainTracker or storage helper and its result

vars == <<store, toSet, orig, tabs, focused, budget, events, cyc, domainCounts, cacheFresh,
          badge, jobs, lastWrite, ret>>

\* ------------------------------------------------------------------ options
Keys == {"maxTotal", "maxWindow", "maxDomain", "exceedTabNewWindow", "displayAlert",
         "countPinnedTabs", "displayBadge", "alertMessage"}

\* a template is a sequence of tokens; a token is a sequence of strings, a
\* placeholder {name} is <<"{", name, "}">>
DefaultAlertMessage ==
    << <<"Limit is ">>, <<"{", "maxPlace", "}">>, <<" tabs in ">>, <<"{", "place", "}">> >>

defaults ==
    [maxTotal |-> DefaultMaxTotal, maxWindow |-> DefaultMaxWindow,
     maxDomain |-> DefaultMaxDomain, exceedTabNewWindow |-> FALSE,
     displayAlert |-> TRUE, countPinnedTabs |-> FALSE, displayBadge |-> FALSE,
     alertMessage |-> DefaultAlertMessage]

\* getOptions(): the stored value of every key
getOptions == [k \in Keys |-> store[k].v]

Stored(v) == [set |-> TRUE, v |-> v]
\* no helper has been called yet
NoCall == [fn |-> "none"]

\* ------------------------------------------------------------------- host
\* a JavaScript value handed over as a URL is [type, text]: type is its typeof
\* and text, for a string, the sequence of its tokens (scheme, ":", "//", the
\* labels of the host and the "." between them, port, "/", path, "?", query)
StringValue(text) == [type |-> "string", text |-> text]
NoUrl == StringValue(<< >>)
NoTab == [win |-> 0, pinned |-> FALSE, url |-> NoUrl]

UrlExample == StringValue(<<"https", ":", "//", "example", ".", "com", "/">>)
UrlWwwExample ==
    StringValue(<<"https", ":", "//", "www", ".", "example", ".", "com", "/", "page">>)
UrlOther == StringValue(<<"https", ":", "//", "other", ".", "org", "/">>)

Exists(t) == tabs[t].win # 0
OpenWindows == {tabs[t].win : t \in {x \in TabIds : Exists(x)}}
TabsOfWindow(w) == {t \in TabIds : tabs[t].win = w}

\* ------------------------------------------------------------ the classifier
\* String.prototype.startsWith
startsWith(text, prefix) ==
    Len(text) >= Len(prefix) /\ SubSeq(text, 1, Len(prefix)) = prefix

\* the tokens that are decimal numbers, and their values
NumericLabels == {"0", "1", "10", "44", "127", "168", "192", "300", "8080"}

NumericValue(label) ==
    CASE label = "0" -> 0 [] label = "1" -> 1 [] label = "10" -> 10 [] label = "44" -> 44
      [] label = "127" -> 127 [] label = "168" -> 168 [] label = "192" -> 192
      [] label = "300" -> 300 [] label = "8080" -> 8080

NumericLabel(n) == CHOOSE label \in NumericLabels : NumericValue(label) = n

IPv6Literals == {"[::1]", "[2001:db8::1]"}
Delimiters == {":", "//", "/", "?", "."}
\* a code point no host may hold
ForbiddenHostTokens == {" "}
SpecialSchemes == {"http", "https", "ftp", "ws", "wss", "file"}

\* the lower-case form the URL parser gives a label of a host
toLowerCase(label) ==
    CASE label = "WWW" -> "www" [] label = "Example" -> "example" [] OTHER -> label

\* the position of the ":" that ends the scheme, 0 if the text has no scheme
RECURSIVE schemeEnd(_, _)
schemeEnd(text, i) ==
    IF i > Len(text) THEN 0
    ELSE IF text[i] = ":" THEN (IF i = 1 THEN 0 ELSE i)
    ELSE IF text[i] \in (Delimiters \ {"."}) \cup ForbiddenHostTokens \cup IPv6Literals THEN 0
    ELSE IF i = 1 /\ text[i] \in NumericLabels \cup {"."} THEN 0
    ELSE schemeEnd(text, i + 1)

\* the length of the host: the tokens before the port, the path or the query
RECURSIVE hostEnd(_, _)
hostEnd(text, i) ==
    IF i > Len(text) \/ text[i] \in {":", "/", "//", "?"} THEN i - 1
    ELSE hostEnd(text, i + 1)

\* labels and dots alternate in a host
WellFormedHost(h) ==
    \A i \in 1..Len(h) : IF i % 2 = 0 THEN h[i] = "."
                         ELSE h[i] \notin Delimiters \cup ForbiddenHostTokens \cup IPv6Literals

\* hostname.split("."): a trailing dot leaves an empty last label
hostLabels(h) ==
    [i \in 1..((Len(h) + 1) \div 2) |-> h[2 * i - 1]]
        \o (IF Len(h) > 0 /\ Len(h) % 2 = 0 THEN <<"">> ELSE << >>)

ParseFailure == [ok |-> FALSE, hostname |-> << >>]
Parsed(hostname) == [ok |-> TRUE, hostname |-> hostname]

\* the IPv4 parser of the URL standard: at most four numbers, the last one
\* filling the bytes that are left
ipv4Host(labels) ==
    LET n == Len(labels)
        last == NumericValue(labels[n])
    IN IF \/ n > 4
          \/ \E i \in 1..n : labels[i] \notin NumericLabels
          \/ \E i \in 1..(n - 1) : NumericValue(labels[i]) > 255
          \/ (n = 4 /\ last > 255)
          \/ (n = 3 /\ last > 65535)
       THEN ParseFailure
       ELSE Parsed([i \in 1..4 |->
                IF i < n THEN labels[i]
                ELSE IF i = 4 THEN NumericLabel(last % 256)
                ELSE IF i = 3 THEN NumericLabel((last \div 256) % 256)
                ELSE IF i = 2 THEN NumericLabel((last \div 65536) % 256)
                ELSE NumericLabel(last \div 16777216)])

\* the host parser of the URL standard for a special scheme
parseHost(h) ==
    IF h = << >> THEN ParseFailure
    ELSE IF Len(h) = 1 /\ h[1] \in IPv6Literals THEN Parsed(h)
    ELSE IF ~WellFormedHost(h) THEN ParseFailure
    ELSE LET labels == [i \in DOMAIN hostLabels(h) |-> toLowerCase(hostLabels(h)[i])]
             n == Len(labels)
             last == IF labels[n] = "" /\ n > 1 THEN labels[n - 1] ELSE labels[n]
         IN IF last \in NumericLabels
            THEN ipv4Host(IF labels[n] = "" THEN SubSeq(labels, 1, n - 1) ELSE labels)
            ELSE Parsed(labels)

\* new URL(url).hostname, as the sequence of the labels of the host name
parseUrl(text) ==
    LET colon == schemeEnd(text, 1)
        scheme == SubSeq(text, 1, colon - 1)
        rest == SubSeq(text, colon + 1, Len(text))
        slashes == IF rest # << >> /\ rest[1] \in {"//", "/"} THEN 1 ELSE 0
        authority == SubSeq(rest, slashes + 1, Len(rest))
        h == SubSeq(authority, 1, hostEnd(authority, 1))
        after == SubSeq(authority, Len(h) + 1, Len(authority))
        badPort == /\ Len(after) >= 2 /\ after[1] = ":"
                   /\ after[2] \notin NumericLabels \cup {"/", "?"}
    IN IF colon = 0 THEN ParseFailure
       ELSE IF scheme = <<"file">> THEN Parsed(<< >>)
       ELSE IF Len(scheme) = 1 /\ scheme[1] \in SpecialSchemes
       THEN (IF badPort THEN ParseFailure ELSE parseHost(h))
       ELSE IF rest # << >> /\ rest[1] = "//"
       THEN (IF badPort \/ \E i \in 1..Len(h) : h[i] \in ForbiddenHostTokens
             THEN ParseFailure
             ELSE Parsed(IF h = << >> THEN << >> ELSE hostLabels(h)))
       ELSE Parsed(<< >>)

\* /^(\d{1,3}\.){3}\d{1,3}$/
ipv4Regex(hostname) ==
    /\ Len(hostname) = 4
    /\ \A i \in 1..4 : hostname[i] \in NumericLabels /\ NumericValue(hostname[i]) < 1000

\* a hostname that is the empty string
emptyString(hostname) == hostname = << >> \/ hostname = <<"">>

\* a classifier that parses the URL before it looks at the prefixes
extractDomainParseFirst(url) ==
    IF url.type # "string" \/ url.text = << >> THEN <<"unknown">>
    ELSE IF ~parseUrl(url.text).ok THEN <<"unknown">>
    ELSE IF \/ startsWith(url.text, <<"chrome", ":", "//">>)
            \/ startsWith(url.text, <<"chrome-extension", ":", "//">>)
            \/ startsWith(url.text, <<"moz-extension", ":", "//">>) THEN <<"system">>
    ELSE IF startsWith(url.text, <<"data", ":">>) \/ startsWith(url.text, <<"blob", ":">>)
         THEN <<"data">>
    ELSE IF startsWith(url.text, <<"file", ":", "//">>) THEN <<"file">>
    ELSE IF startsWith(url.text, <<"localhost">>) THEN <<"localhost">>
    ELSE LET hostname == parseUrl(url.text).hostname
         IN IF hostname \in {<<"localhost">>, <<"127", "0", "0", "1">>, <<"::1">>}
            THEN <<"localhost">>
            ELSE IF ipv4Regex(hostname) THEN hostname
            ELSE IF Len(hostname) = 1 /\ hostname[1] \in IPv6Literals THEN hostname
            ELSE LET cleaned == IF Len(hostname) >= 2 /\ hostname[1] = "www"
                                THEN Tail(hostname) ELSE hostname
                 IN IF emptyString(cleaned) THEN <<"unknown">> ELSE cleaned

\* a classifier that keeps the leading "www." of a host name
extractDomainKeepWww(url) ==
    IF url.type # "string" \/ url.text = << >> THEN <<"unknown">>
    ELSE IF \/ startsWith(url.text, <<"chrome", ":", "//">>)
            \/ startsWith(url.text, <<"chrome-extension", ":", "//">>)
            \/ startsWith(url.text, <<"moz-extension", ":", "//">>) THEN <<"system">>
    ELSE IF startsWith(url.text, <<"data", ":">>) \/ startsWith(url.text, <<"blob", ":">>)
         THEN <<"data">>
    ELSE IF startsWith(url.text, <<"file", ":", "//">>) THEN <<"file">>
    ELSE IF startsWith(url.text, <<"localhost">>) THEN <<"localhost">>
    ELSE LET urlObj == parseUrl(url.text)
             hostname == urlObj.hostname
         IN IF ~urlObj.ok THEN <<"unknown">>
            ELSE IF hostname \in {<<"localhost">>, <<"127", "0", "0", "1">>, <<"::1">>}
                 THEN <<"localhost">>
            ELSE IF emptyString(hostname) THEN <<"unknown">> ELSE hostname

\* DomainTracker.extractDomainFromUrl; a key is the sequence of its labels
extractDomainFromUrl(url) ==
    IF url.type # "string" \/ url.text = << >> THEN <<"unknown">>
    ELSE IF \/ startsWith(url.text, <<"chrome", ":", "//">>)
            \/ startsWith(url.text, <<"chrome-extension", ":", "//">>)
            \/ startsWith(url.text, <<"moz-extension", ":", "//">>) THEN <<"system">>
    ELSE IF startsWith(url.text, <<"data", ":">>) \/ startsWith(url.text, <<"blob", ":">>)
         THEN <<"data">>
    ELSE IF startsWith(url.text, <<"file", ":", "//">>) THEN <<"file">>
    ELSE IF startsWith(url.text, <<"localhost">>) THEN <<"localhost">>
    ELSE LET urlObj == parseUrl(url.text)
             hostname == urlObj.hostname
         IN IF ~urlObj.ok THEN <<"unknown">>
            ELSE IF hostname \in {<<"localhost">>, <<"127", "0", "0", "1">>, <<"::1">>}
                 THEN <<"localhost">>
            ELSE IF ipv4Regex(hostname) THEN hostname
            ELSE IF Len(hostname) = 1 /\ hostname[1] \in IPv6Literals THEN hostname
            ELSE LET cleaned == IF Len(hostname) >= 2 /\ hostname[1] = "www"
                                THEN Tail(hostname) ELSE hostname
                 IN IF emptyString(cleaned) THEN <<"unknown">> ELSE cleaned

\* the root domain of the extractDomain of the domain analysis: the last two labels,
\* three under a multi-part suffix
multiPartTlds ==
    {<<"co", "uk">>, <<"co", "jp">>, <<"co", "kr">>, <<"co", "za">>, <<"co", "nz">>,
     <<"co", "in">>, <<"com", "au">>, <<"com", "br">>, <<"com", "mx">>, <<"com", "ar">>,
     <<"com", "co">>, <<"net", "au">>, <<"org", "uk">>, <<"ac", "uk">>, <<"gov", "uk">>,
     <<"edu", "au">>, <<"github", "io">>, <<"herokuapp", "com">>, <<"blogspot", "com">>,
     <<"wordpress", "com">>, <<"tumblr", "com">>}

rootDomain(parts) ==
    LET n == Len(parts)
    IN IF n < 2 THEN parts
       ELSE IF n >= 3 /\ SubSeq(parts, n - 1, n) \in multiPartTlds
       THEN SubSeq(parts, n - 2, n)
       ELSE SubSeq(parts, n - 1, n)

\* the URLs the tabs of the specifications show
dotted(labels) ==
    [i \in 1..(2 * Len(labels) - 1) |-> IF i % 2 = 1 THEN labels[(i + 1) \div 2] ELSE "."]

WebPrefixes == {<<"https", ":", "//">>, <<"http", ":", "//">>}

UrlPrefixes ==
    WebPrefixes \cup
    {<<"ftp", ":", "//">>, <<"chrome", ":", "//">>, <<"chrome-extension", ":", "//">>,
     <<"moz-extension", ":", "//">>, <<"data", ":">>, <<"blob", ":">>,
     <<"file", ":", "//">>, <<"about", ":">>, << >>}

HostNames ==
    {<<"example", "com">>, <<"www", "example", "com">>, <<"WWW", "Example", "com">>,
     <<"www", "www", "example", "com">>, <<"youtube", "com">>, <<"www", "youtube", "com">>,
     <<"mail", "google", "com">>, <<"drive", "google", "com">>,
     <<"www", "mail", "google", "com">>, <<"google", "com">>, <<"example", "co", "uk">>,
     <<"shop", "example", "co", "uk">>, <<"localhost">>, <<"www", "localhost">>,
     <<"localhost", "example", "com">>, <<"www">>, <<"127", "0", "0", "1">>,
     <<"127", "1">>, <<"192", "168", "1", "1">>, <<"192", "168", "1">>,
     <<"10", "0", "0", "1">>, <<"300", "1", "1", "1">>}

UrlHosts ==
    {dotted(labels) : labels \in HostNames} \cup
    {<<"[::1]">>, <<"[2001:db8::1]">>, << >>, <<"example", " ", "com">>, <<"www", ".">>,
     <<"example", ".", "com", ".">>}

UrlTails ==
    {<< >>, <<"/">>, <<":", "8080", "/", "page">>, <<"/", "page", "?", "q">>, <<":", "page">>}

NullUrl == [type |-> "object", text |-> << >>]
UndefinedUrl == [type |-> "undefined", text |-> << >>]
NumberUrl == [type |-> "number", text |-> << >>]

UrlInputs ==
    {StringValue(p \o h \o t) : p \in UrlPrefixes, h \in UrlHosts, t \in UrlTails}
        \cup {NullUrl, UndefinedUrl, NumberUrl}

\* the second tab: a web page, an address or a local server
UrlPeers ==
    {StringValue(p \o dotted(labels) \o t) :
        p \in WebPrefixes,
        labels \in {<<"example", "com">>, <<"drive", "google", "com">>,
                    <<"www", "youtube", "com">>, <<"127", "0", "0", "1">>,
                    <<"192", "168", "1", "1">>, <<"10", "0", "0", "1">>},
        t \in {<<"/">>}}
        \cup {StringValue(<<"https", ":", "//", "[::1]", "/">>)}

UrlMail == StringValue(<<"https", ":", "//", "mail", ".", "google", ".", "com", "/", "inbox">>)

\* pages whose key is a sentinel: the new-tab page and an extension page
\* ("system"), data: and blob: ("data"), local files ("file"), local servers
\* ("localhost"); a tab without a URL has the key "unknown"
UrlNewTab == StringValue(<<"chrome", ":", "//", "newtab", "/">>)
UrlExtension == StringValue(<<"chrome-extension", ":", "//", "example", ".", "com", "/">>)
UrlData == StringValue(<<"data", ":", "/">>)
UrlBlob == StringValue(<<"blob", ":", "/">>)
UrlFile == StringValue(<<"file", ":", "//", "/", "page", "?", "q">>)
UrlFileRoot == StringValue(<<"file", ":", "//", "/">>)
UrlLocalhost == StringValue(<<"http", ":", "//", "localhost", ":", "8080", "/", "page">>)
UrlLoopback == StringValue(<<"https", ":", "//", "127", ".", "0", ".", "0", ".", "1", "/">>)

SentinelUrls ==
    {UrlNewTab, UrlExtension, UrlData, UrlBlob, UrlFile, UrlFileRoot, UrlLocalhost,
     UrlLoopback, NoUrl, UndefinedUrl}

KnownUrls ==
    UrlInputs \cup UrlPeers \cup SentinelUrls
        \cup {NoUrl, UrlExample, UrlWwwExample, UrlOther, UrlMail}

\* this.extractDomainFromUrl(tab.url) for each of these URLs
domainOf == [url \in KnownUrls |-> extractDomainFromUrl(url)]

\* ------------------------------------------------------------------- queries
\* a query that never sets params.pinned = false
tabQueryAll(options, currentWindow) ==
    {t \in TabIds : Exists(t) /\ (currentWindow => tabs[t].win = focused)}

\* tabQuery(options, params): the ids of the matching tabs
tabQuery(options, currentWindow) ==
    {t \in TabIds :
        /\ Exists(t)
        /\ (~options.countPinnedTabs => ~tabs[t].pinned)
        /\ (currentWindow => tabs[t].win = focused)}

\* a Map is the sequence of its entries [domain, tabCount] in insertion order
mapHas(m, domain) == \E i \in 1..Len(m) : m[i].domain = domain

\* Map.prototype.get, with 0 for a key the Map does not hold
mapGet(m, domain) ==
    IF mapHas(m, domain)
    THEN m[CHOOSE i \in 1..Len(m) : m[i].domain = domain].tabCount
    ELSE 0

\* Map.prototype.set
mapSet(m, domain, tabCount) ==
    IF mapHas(m, domain)
    THEN [i \in 1..Len(m) |-> IF m[i].domain = domain
                               THEN [domain |-> domain, tabCount |-> tabCount] ELSE m[i]]
    ELSE Append(m, [domain |-> domain, tabCount |-> tabCount])

\* a callback that stores 1 for the domain of tab t, whatever the Map holds
countTabOnce(m, t) == mapSet(m, domainOf[tabs[t].url], 1)

\* the callback of tabs.forEach in updateDomainCounts: tab t is counted in the Map m
countTab(m, t) == mapSet(m, domainOf[tabs[t].url], mapGet(m, domainOf[tabs[t].url]) + 1)

\* tabs.forEach of updateDomainCounts over the tabs t, t + 1, ... of the query q; the
\* Map of each round is a value before the next round begins
RECURSIVE countDomains(_, _, _)
countDomains(q, t, m) ==
    IF t > LargeInit + MaxCreate THEN m
    ELSE CHOOSE counted \in {countDomains(q, t + 1, next) :
                                next \in {IF t \in q THEN countTab(m, t) ELSE m}} : TRUE

\* the Map built by DomainTracker.updateDomainCounts
newDomainCounts(options) == countDomains(tabQuery(options, FALSE), 1, << >>)

\* a cache that is refreshed only when the Map is empty, whatever its age
cacheStaleWhenEmpty == domainCounts = << >>

\* DomainTracker.getDomainCounts: is the cache refreshed by this call?
cacheStale == ~cacheFresh \/ domainCounts = << >>

currentDomainCounts(options) ==
    IF cacheStale THEN newDomainCounts(options) ELSE domainCounts

\* DomainTracker.getDomainInfo: limit and tabCount
domainLimit(options) ==
    IF options.maxDomain = 0 THEN FallbackDomainLimit ELSE options.maxDomain

domainTabCount(counts, domain) == mapGet(counts, domain)

\* the keys extractDomainFromUrl gives to pages that have no web domain
SentinelKeys == {<<"system">>, <<"data">>, <<"file">>, <<"unknown">>, <<"localhost">>}

\* a domain check that exempts the sentinel keys
detectTooManyTabsInDomainExempt(url, options) ==
    /\ domainOf[url] \notin SentinelKeys
    /\ domainTabCount(currentDomainCounts(options), domainOf[url]) >= domainLimit(options)

\* detectTooManyTabsInDomain: does it return "domain"?
detectTooManyTabsInDomain(url, options) ==
    domainTabCount(currentDomainCounts(options), domainOf[url])
        >= domainLimit(options)

\* detectTooManyTabsInWindow: does the promise resolve?
detectTooManyTabsInWindow(options) ==
    /\ ~(options.maxWindow < 1)
    /\ Cardinality(tabQuery(options, TRUE)) > options.maxWindow

\* a total detector that lets one tab more through
detectTooManyTabsInTotalLax(options) ==
    options.maxTotal >= 1 /\ Cardinality(tabQuery(options, FALSE)) > options.maxTotal + 1

\* detectTooManyTabsInTotal: does the promise resolve?
detectTooManyTabsInTotal(options) ==
    /\ ~(options.maxTotal < 1)
    /\ Cardinality(tabQuery(options, FALSE)) > options.maxTotal

\* handleExceedTabs without its two total checks
totalLimitIgnored(options) == FALSE

\* handleExceedTabs: totalTabs.length >= options.maxTotal (both checks)
totalLimitReached(options) ==
    Cardinality(tabQuery(options, FALSE)) >= options.maxTotal

\* ---------------------------------------------------------------- rendering
DigitStr == <<"0", "1", "2", "3", "4", "5", "6", "7", "8", "9">>

RECURSIVE Digits(_)
Digits(n) ==
    IF n < 10 THEN <<DigitStr[n + 1]>>
    ELSE Digits(n \div 10) \o <<DigitStr[(n % 10) + 1]>>

\* Number.prototype.toString
numberToString(n) == IF n < 0 THEN <<"-">> \o Digits(-n) ELSE Digits(n)

\* "max" + capitalizeFirstLetter(place)
maxKey(place) ==
    CASE place = "window" -> "maxWindow"
      [] place = "total" -> "maxTotal"
      [] place = "domain" -> "maxDomain"

\* the replacer of displayAlert
replacer(options, place, p1) ==
    CASE p1 \in {"place", "which"} ->
            IF place = "domain" THEN <<"per domain">>
            ELSE IF place = "window" THEN <<"one window">> ELSE <<"total">>
      [] p1 \in {"maxPlace", "maxWhich"} -> numberToString(options[maxKey(place)])
      [] p1 \in {"maxTotal", "maxWindow", "maxDomain"} ->
            IF options[p1] = 0 THEN <<"?">> ELSE numberToString(options[p1])
      [] p1 \in {"exceedTabNewWindow", "displayAlert", "countPinnedTabs", "displayBadge"} ->
            IF options[p1] THEN <<"true">> ELSE <<"?">>
      [] OTHER -> <<"?">>

IsPlaceholder(tok) == Len(tok) = 3 /\ tok[1] = "{" /\ tok[3] = "}"

\* the message displayAlert hands to chrome.notifications.create
renderedMessage(options, place, movedToOtherWindow) ==
    LET tpl == options.alertMessage
        body == [i \in 1..Len(tpl) |->
                    IF IsPlaceholder(tpl[i]) THEN replacer(options, place, tpl[i][2])
                    ELSE tpl[i]]
    IN IF movedToOtherWindow /\ options.exceedTabNewWindow /\ place = "window"
       THEN << <<"Opened in another window. ">> >> \o body
       ELSE body

\* ------------------------------------------------------------------ cycles
NoCycle ==
    [pc |-> "none", url |-> NoUrl, wdone |-> FALSE, tdone |-> FALSE, place |-> "none",
     best |-> 0, caps |-> << >>, over |-> FALSE, under |-> "none", moved |-> FALSE, notified |-> FALSE,
     msg |-> << >>, act |-> "none", badgeCalls |-> 0,
     \* history: the host call of the cycle that failed last ("closed": the user
     \* closed the tab), and whether an error of the cycle reached no handler
     fault |-> "none", uncaught |-> FALSE]

\* the smallest identifier no created tab has used
FreshTabs == {t \in TabIds : ~Exists(t) /\ cyc[t].pc = "none"}
NextTabId == CHOOSE t \in FreshTabs : \A u \in FreshTabs : t <= u

\* ------------------------------------------------------------------- badge
Pending == -1
NewJob == [w |-> Pending, t |-> Pending]

Min2(a, b) == IF a <= b THEN a ELSE b

\* a badge of the larger of the two remaining counts
badgeTextMax(options, windowCount, totalCount) ==
    LET a == options.maxWindow - windowCount
        b == options.maxTotal - totalCount
    IN numberToString(IF a >= b THEN a ELSE b)

\* Math.min(...remaining).toString() of updateBadge
badgeText(options, windowCount, totalCount) ==
    numberToString(Min2(options.maxWindow - windowCount, options.maxTotal - totalCount))

RECURSIVE AddJobs(_, _)
AddJobs(b, k) == IF k = 0 THEN b ELSE AddJobs(b (+) SetToBag({NewJob}), k - 1)

\* k calls of updateBadge(options) made by one step
updateBadge(options, k) ==
    IF k = 0 THEN UNCHANGED <<badge, jobs, lastWrite>>
    ELSE IF ~options.displayBadge
    THEN /\ badge' = << >>
         /\ lastWrite' = "cleared"
         /\ UNCHANGED jobs
    ELSE /\ BagCardinality(jobs) + k <= MaxJobs
         /\ jobs' = AddJobs(jobs, k)
         /\ UNCHANGED <<badge, lastWrite>>

\* the callback of windowRemaining's query
BadgeReadWindow ==
    \E j \in BagToSet(jobs) :
        /\ j.w = Pending
        /\ LET options == getOptions
               n == Cardinality(tabQuery(options, TRUE))
           IN IF j.t = Pending
              THEN /\ jobs' = (jobs (-) SetToBag({j})) (+) SetToBag({[j EXCEPT !.w = n]})
                   /\ UNCHANGED <<badge, lastWrite>>
              ELSE /\ jobs' = jobs (-) SetToBag({j})
                   /\ badge' = badgeText(options, n, j.t)
                   /\ lastWrite' = "min"
        /\ UNCHANGED <<store, toSet, orig, ret, tabs, focused, budget, events, cyc, domainCounts, cacheFresh>>

\* the callback of totalRemaining's query
BadgeReadTotal ==
    \E j \in BagToSet(jobs) :
        /\ j.t = Pending
        /\ LET options == getOptions
               n == Cardinality(tabQuery(options, FALSE))
           IN IF j.w = Pending
              THEN /\ jobs' = (jobs (-) SetToBag({j})) (+) SetToBag({[j EXCEPT !.t = n]})
                   /\ UNCHANGED <<badge, lastWrite>>
              ELSE /\ jobs' = jobs (-) SetToBag({j})
                   /\ badge' = badgeText(options, j.w, n)
                   /\ lastWrite' = "min"
        /\ UNCHANGED <<store, toSet, orig, ret, tabs, focused, budget, events, cyc, domainCounts, cacheFresh>>

\* ------------------------------------------------------------- host effects
\* a removal that closes the newest open tab, whichever tab it was asked for
removedNewest(t) ==
    [tabs EXCEPT ![CHOOSE u \in TabIds : Exists(u) /\ \A v \in TabIds : Exists(v) => v <= u] = NoTab]

\* chrome.tabs.remove(id): the tab list afterwards
removed(t) == [tabs EXCEPT ![t] = NoTab]
\* chrome.tabs.move(id, {windowId}) and chrome.windows.create({tabId})
movedTo(t, w) == [tabs EXCEPT ![t].win = w]
\* onRemoved fires only for a tab that existed
removedEvents(t) == IF Exists(t) THEN 1 ELSE 0
\* chrome.tabs.remove(id) returns a promise that nothing awaits or catches: for
\* a tab that is gone it rejects and the rejection reaches no handler
removeRejected(t) == ~Exists(t)
\* onFocusChanged fires only when the focus changes
focusEvents(w) == IF w # focused THEN 1 ELSE 0

\* a displayAlert without the early return on !options.displayAlert
displayAlertAlways(c, options, place, movedToOtherWindow) ==
    [c EXCEPT !.under = place, !.moved = movedToOtherWindow,
              !.notified = TRUE,
              !.msg = renderedMessage(options, place, movedToOtherWindow)]

\* displayAlert(options, place, movedToOtherWindow) as it marks the cycle
displayAlert(c, options, place, movedToOtherWindow) ==
    [c EXCEPT !.under = place, !.moved = movedToOtherWindow,
              !.notified = options.displayAlert,
              !.msg = IF options.displayAlert
                      THEN renderedMessage(options, place, movedToOtherWindow)
                      ELSE << >>]

\* the refresh of DomainTracker.getDomainCounts
RefreshCache(options) ==
    /\ domainCounts' = currentDomainCounts(options)
    /\ cacheFresh' = (cacheStale \/ cacheFresh)

\* ------------------------------------------------------ handleTabCreated
\* chrome.tabs.onCreated: the host has opened tab NextTabId in window w
TabCreated(w, u) ==
    /\ budget > 0
    /\ FreshTabs # {}
    /\ w \in OpenWindows
    /\ tabs' = [tabs EXCEPT ![NextTabId] = [win |-> w, pinned |-> FALSE, url |-> u]]
    /\ cyc' = [cyc EXCEPT ![NextTabId] =
            [NoCycle EXCEPT !.pc = "domain1", !.url = u,
                            \* history: the creation leaves the counted total above maxTotal
                            !.over = /\ getOptions.maxTotal >= 1
                                     /\ Cardinality(tabQuery(getOptions, FALSE)) + 1
                                            > getOptions.maxTotal]]
    /\ budget' = budget - 1
    /\ UNCHANGED <<store, toSet, orig, ret, focused, events, domainCounts, cacheFresh, badge, jobs,
                   lastWrite>>

\* first pass, the domain check: on "domain" the tab is removed at once
DomainPass1(t) ==
    /\ cyc[t].pc = "domain1"
    /\ LET options == getOptions
       IN /\ RefreshCache(options)
          /\ IF detectTooManyTabsInDomain(cyc[t].url, options)
             THEN /\ tabs' = removed(t)
                  /\ cyc' = [cyc EXCEPT ![t] =
                        [displayAlert(cyc[t], options, "domain", FALSE)
                            EXCEPT !.pc = "done", !.act = "removed", !.badgeCalls = 1,
                                   !.uncaught = @ \/ removeRejected(t)]]
                  /\ updateBadge(options, 1 + removedEvents(t))
             ELSE /\ cyc' = [cyc EXCEPT ![t].pc = "race1"]
                  /\ UNCHANGED <<tabs, badge, jobs, lastWrite>>
    /\ UNCHANGED <<store, toSet, orig, ret, focused, budget, events>>

\* a detector of Promise.race that does not resolve leaves the race waiting
Unresolved(c, which) ==
    LET d == IF which = "window" THEN [c EXCEPT !.wdone = TRUE] ELSE [c EXCEPT !.tdone = TRUE]
    IN IF d.wdone /\ d.tdone THEN [d EXCEPT !.pc = "hung"] ELSE d

\* first pass: detectTooManyTabsInWindow's query returns
RaceWindow1(t) ==
    /\ cyc[t].pc = "race1" /\ ~cyc[t].wdone
    /\ cyc' = [cyc EXCEPT ![t] =
            IF detectTooManyTabsInWindow(getOptions)
            THEN [cyc[t] EXCEPT !.pc = "timer", !.wdone = FALSE, !.tdone = FALSE]
            ELSE Unresolved(cyc[t], "window")]
    /\ UNCHANGED <<store, toSet, orig, ret, tabs, focused, budget, events, domainCounts, cacheFresh,
                   badge, jobs, lastWrite>>

\* first pass: detectTooManyTabsInTotal's query returns
RaceTotal1(t) ==
    /\ cyc[t].pc = "race1" /\ ~cyc[t].tdone
    /\ cyc' = [cyc EXCEPT ![t] =
            IF detectTooManyTabsInTotal(getOptions)
            THEN [cyc[t] EXCEPT !.pc = "timer", !.wdone = FALSE, !.tdone = FALSE]
            ELSE Unresolved(cyc[t], "total")]
    /\ UNCHANGED <<store, toSet, orig, ret, tabs, focused, budget, events, domainCounts, cacheFresh,
                   badge, jobs, lastWrite>>

\* handleExceedTabs(tab, options, place) is entered and updateBadge(options) called
Entered(c, place) == [c EXCEPT !.pc = "exceed", !.place = place, !.badgeCalls = 1]

\* the 100 ms timer fires: the second domain check
DomainPass2(t) ==
    /\ cyc[t].pc = "timer"
    /\ LET options == getOptions
       IN /\ RefreshCache(options)
          /\ IF detectTooManyTabsInDomain(cyc[t].url, options)
             THEN /\ cyc' = [cyc EXCEPT ![t] = Entered(cyc[t], "domain")]
                  /\ updateBadge(options, 1)
             ELSE /\ cyc' = [cyc EXCEPT ![t].pc = "race2"]
                  /\ UNCHANGED <<badge, jobs, lastWrite>>
    /\ UNCHANGED <<store, toSet, orig, ret, tabs, focused, budget, events>>

\* second pass: detectTooManyTabsInWindow's query returns
RaceWindow2(t) ==
    /\ cyc[t].pc = "race2" /\ ~cyc[t].wdone
    /\ IF detectTooManyTabsInWindow(getOptions)
       THEN /\ cyc' = [cyc EXCEPT ![t] = Entered(cyc[t], "window")]
            /\ updateBadge(getOptions, 1)
       ELSE /\ cyc' = [cyc EXCEPT ![t] = Unresolved(cyc[t], "window")]
            /\ UNCHANGED <<badge, jobs, lastWrite>>
    /\ UNCHANGED <<store, toSet, orig, ret, tabs, focused, budget, events, domainCounts, cacheFresh>>

\* second pass: detectTooManyTabsInTotal's query returns
RaceTotal2(t) ==
    /\ cyc[t].pc = "race2" /\ ~cyc[t].tdone
    /\ IF detectTooManyTabsInTotal(getOptions)
       THEN /\ cyc' = [cyc EXCEPT ![t] = Entered(cyc[t], "total")]
            /\ updateBadge(getOptions, 1)
       ELSE /\ cyc' = [cyc EXCEPT ![t] = Unresolved(cyc[t], "total")]
            /\ UNCHANGED <<badge, jobs, lastWrite>>
    /\ UNCHANGED <<store, toSet, orig, ret, tabs, focused, budget, events, domainCounts, cacheFresh>>

\* ------------------------------------------------------- handleExceedTabs
\* chrome.tabs.remove(tab.id); displayAlert(options, place, false) as they mark the cycle
Closed(c, t, options, place) ==
    [displayAlert(c, options, place, FALSE)
        EXCEPT !.pc = "done", !.act = "removed", !.uncaught = @ \/ removeRejected(t)]

\* remove the tab and alert under `place`: the end of a cycle
CloseTab(t, options, place) ==
    /\ tabs' = removed(t)
    /\ cyc' = [cyc EXCEPT ![t] = Closed(cyc[t], t, options, place)]
    /\ updateBadge(options, removedEvents(t))
    /\ UNCHANGED focused

\* a relocation branch that is taken for every category
relocateTabAnyPlace(options, place) == options.exceedTabNewWindow

\* handleExceedTabs: options.exceedTabNewWindow && place === "window"
relocateTab(options, place) == options.exceedTabNewWindow /\ place = "window"

\* the first total check, then the branch on exceedTabNewWindow and place
ExceedTotalCheck(t) ==
    /\ cyc[t].pc = "exceed"
    /\ LET options == getOptions
       IN IF totalLimitReached(options)
          THEN CloseTab(t, options, "total")
          ELSE IF relocateTab(options, cyc[t].place)
          THEN /\ cyc' = [cyc EXCEPT ![t].pc = "windows"]
               /\ UNCHANGED <<tabs, focused, badge, jobs, lastWrite>>
          ELSE CloseTab(t, options, cyc[t].place)
    /\ UNCHANGED <<store, toSet, orig, ret, budget, events, domainCounts, cacheFresh>>

\* options.maxWindow - windowTabs.length for every window of chrome.windows.getAll
remainingCapacity(options) ==
    [w \in OpenWindows |->
        options.maxWindow
            - Cardinality({t \in TabsOfWindow(w) : options.countPinnedTabs \/ ~tabs[t].pinned})]

\* the loop over the windows, in the order of their identifiers
RECURSIVE bestWindowFrom(_, _, _, _)
bestWindowFrom(caps, w, bestWindow, maxRemainingCapacity) ==
    IF w > MaxWins THEN bestWindow
    ELSE IF w \in DOMAIN caps /\ caps[w] > maxRemainingCapacity
    THEN bestWindowFrom(caps, w + 1, w, caps[w])
    ELSE bestWindowFrom(caps, w + 1, bestWindow, maxRemainingCapacity)

\* bestWindow after the loop; 0 is null
bestWindow(caps) == bestWindowFrom(caps, 1, 0, 0)

\* chrome.windows.getAll returns: the destination is chosen
ExceedWindows(t) ==
    /\ cyc[t].pc = "windows"
    /\ LET caps == remainingCapacity(getOptions)
       IN cyc' = [cyc EXCEPT ![t].pc = "recheck", ![t].caps = caps,
                             ![t].best = bestWindow(caps)]
    /\ UNCHANGED <<store, toSet, orig, ret, tabs, focused, budget, events, domainCounts, cacheFresh,
                   badge, jobs, lastWrite>>

FreeWindows == WinIds \ OpenWindows
NewWindowId == CHOOSE w \in FreeWindows : \A x \in FreeWindows : w <= x

\* handleExceedTabs without the double-check that precedes the relocation
doubleCheckSkipped(options) == FALSE

\* handleExceedTabs: currentTotalTabs.length >= options.maxTotal, the double-check
doubleCheck(options) == totalLimitReached(options)

\* the second total check, then chrome.tabs.move or chrome.windows.create for
\* a tab that is open (MoveFails, CreateFails: the tab is gone)
ExceedRecheck(t) ==
    /\ cyc[t].pc = "recheck"
    /\ LET options == getOptions
       IN IF doubleCheck(options)
          THEN CloseTab(t, options, "total")
          ELSE IF cyc[t].best # 0
          THEN /\ Exists(t)
               /\ tabs' = movedTo(t, cyc[t].best)
               /\ cyc' = [cyc EXCEPT ![t].pc = "focus", ![t].act = "moved"]
               /\ UNCHANGED <<focused, badge, jobs, lastWrite>>
          ELSE /\ Exists(t)
               /\ FreeWindows # {}
               /\ tabs' = movedTo(t, NewWindowId)
               /\ focused' = NewWindowId
               /\ cyc' = [cyc EXCEPT ![t] =
                      [displayAlert(cyc[t], options, cyc[t].place, TRUE)
                          EXCEPT !.pc = "done", !.act = "newwin"]]
               /\ updateBadge(options, 1)
    /\ UNCHANGED <<store, toSet, orig, ret, budget, events, domainCounts, cacheFresh>>

\* the move has returned: chrome.windows.update(bestWindow.id, {focused: true})
ExceedFocus(t) ==
    /\ cyc[t].pc = "focus"
    /\ LET options == getOptions
       IN /\ focused' = cyc[t].best
          /\ cyc' = [cyc EXCEPT ![t] =
                [displayAlert(cyc[t], options, cyc[t].place, TRUE) EXCEPT !.pc = "done"]]
          /\ updateBadge(options, focusEvents(cyc[t].best))
    /\ UNCHANGED <<store, toSet, orig, ret, tabs, budget, events, domainCounts, cacheFresh>>

\* ---------------------------------------------------------- host failures
\* the catch block of handleExceedTabs after the host call `call` has failed
CatchAndClose(t, call) ==
    LET options == getOptions
    IN /\ tabs' = removed(t)
       /\ cyc' = [cyc EXCEPT ![t] =
               [Closed(cyc[t], t, options, cyc[t].place) EXCEPT !.fault = call]]
       /\ updateBadge(options, removedEvents(t))

\* chrome.windows.getAll hands no list to its callback: the loop over the
\* windows throws inside the try
GetAllFails(t) ==
    /\ events > 0
    /\ cyc[t].pc = "windows"
    /\ events' = events - 1
    /\ CatchAndClose(t, "getAll")
    /\ UNCHANGED <<store, toSet, orig, ret, focused, budget, domainCounts, cacheFresh>>

\* the promise of chrome.tabs.move rejects (always, for a tab that is gone): the
\* await throws inside the try
MoveFails(t) ==
    /\ cyc[t].pc = "recheck"
    /\ ~doubleCheck(getOptions)
    /\ cyc[t].best # 0
    /\ \/ /\ ~Exists(t)
          /\ CatchAndClose(t, cyc[t].fault)
          /\ UNCHANGED events
       \/ /\ Exists(t)
          /\ events > 0
          /\ events' = events - 1
          /\ CatchAndClose(t, "move")
    /\ UNCHANGED <<store, toSet, orig, ret, focused, budget, domainCounts, cacheFresh>>

\* the tab has moved and the promise of chrome.windows.update rejects: the await
\* throws inside the try
FocusFails(t) ==
    /\ events > 0
    /\ cyc[t].pc = "focus"
    /\ events' = events - 1
    /\ CatchAndClose(t, "update")
    /\ UNCHANGED <<store, toSet, orig, ret, focused, budget, domainCounts, cacheFresh>>

\* the promise of chrome.windows.create rejects (always, for a tab that is
\* gone): nothing awaits it, so the try does not see the rejection, and
\* displayAlert(options, place, true) is called
CreateFails(t) ==
    /\ cyc[t].pc = "recheck"
    /\ ~doubleCheck(getOptions)
    /\ cyc[t].best = 0
    /\ \E call \in {IF Exists(t) THEN "create" ELSE cyc[t].fault} :
          /\ Exists(t) => events > 0
          /\ events' = IF Exists(t) THEN events - 1 ELSE events
          /\ cyc' = [cyc EXCEPT ![t] =
                  [displayAlert(cyc[t], getOptions, cyc[t].place, TRUE)
                      EXCEPT !.pc = "done", !.fault = call, !.uncaught = TRUE]]
    /\ UNCHANGED <<store, toSet, orig, ret, tabs, focused, budget, domainCounts, cacheFresh,
                   badge, jobs, lastWrite>>

\* chrome.tabs.query hands no list to the callback of tabQuery, which resolves
\* with undefined; in updateDomainCounts tabs.forEach throws inside the try, the
\* Map and lastUpdate stay as they were and getDomainCounts returns the old Map
DomainQueryFails(t) ==
    /\ events > 0
    /\ cyc[t].pc \in {"domain1", "timer"}
    /\ cacheStale
    /\ events' = events - 1
    /\ LET options == getOptions
           c == [cyc[t] EXCEPT !.fault = "query"]
           reported == domainTabCount(domainCounts, domainOf[c.url]) >= domainLimit(options)
       IN IF cyc[t].pc = "domain1"
          THEN IF reported
               THEN /\ tabs' = removed(t)
                    /\ cyc' = [cyc EXCEPT ![t] =
                            [Closed(c, t, options, "domain") EXCEPT !.badgeCalls = 1]]
                    /\ updateBadge(options, 1 + removedEvents(t))
               ELSE /\ cyc' = [cyc EXCEPT ![t] = [c EXCEPT !.pc = "race1"]]
                    /\ UNCHANGED <<tabs, badge, jobs, lastWrite>>
          ELSE IF reported
               THEN /\ cyc' = [cyc EXCEPT ![t] = Entered(c, "domain")]
                    /\ updateBadge(options, 1)
                    /\ UNCHANGED tabs
               ELSE /\ cyc' = [cyc EXCEPT ![t] = [c EXCEPT !.pc = "race2"]]
                    /\ UNCHANGED <<tabs, badge, jobs, lastWrite>>
    /\ UNCHANGED <<store, toSet, orig, ret, focused, budget, domainCounts, cacheFresh>>

\* a detector reads tabs.length of undefined: the callback of .then throws, the
\* promise of the detector never resolves and nothing handles the rejection
DetectorQueryFails(t, which) ==
    /\ events > 0
    /\ cyc[t].pc \in {"race1", "race2"}
    /\ IF which = "window" THEN ~cyc[t].wdone ELSE ~cyc[t].tdone
    /\ events' = events - 1
    /\ cyc' = [cyc EXCEPT ![t] =
            [Unresolved(cyc[t], which) EXCEPT !.fault = "query", !.uncaught = TRUE]]
    /\ UNCHANGED <<store, toSet, orig, ret, tabs, focused, budget, domainCounts, cacheFresh,
                   badge, jobs, lastWrite>>

\* the first total check reads totalTabs.length of undefined: handleExceedTabs
\* rejects, and its caller neither awaits nor catches
ExceedQueryFails(t) ==
    /\ events > 0
    /\ cyc[t].pc = "exceed"
    /\ events' = events - 1
    /\ cyc' = [cyc EXCEPT ![t].pc = "done", ![t].fault = "query", ![t].uncaught = TRUE]
    /\ UNCHANGED <<store, toSet, orig, ret, tabs, focused, budget, domainCounts, cacheFresh,
                   badge, jobs, lastWrite>>

\* the double-check reads currentTotalTabs.length of undefined inside the try
RecheckQueryFails(t) ==
    /\ events > 0
    /\ cyc[t].pc = "recheck"
    /\ events' = events - 1
    /\ CatchAndClose(t, "query")
    /\ UNCHANGED <<store, toSet, orig, ret, focused, budget, domainCounts, cacheFresh>>

\* ------------------------------------------------------------ environment
\* the user closes a tab whose cycle has not acted yet: onRemoved calls updateBadge
TabClosedByUser(t) ==
    /\ events > 0
    /\ Exists(t)
    /\ cyc[t].pc \in {"domain1", "race1", "timer", "race2", "exceed", "windows", "recheck"}
    /\ tabs' = removed(t)
    /\ cyc' = [cyc EXCEPT ![t].fault = "closed"]
    /\ events' = events - 1
    /\ updateBadge(getOptions, 1)
    /\ UNCHANGED <<store, toSet, orig, ret, focused, budget, domainCounts, cacheFresh>>

\* the user focuses another window: onFocusChanged calls updateBadge
FocusChanged(w) ==
    /\ events > 0
    /\ w \in OpenWindows /\ w # focused
    /\ focused' = w
    /\ events' = events - 1
    /\ updateBadge(getOptions, 1)
    /\ UNCHANGED <<store, toSet, orig, ret, tabs, budget, cyc, domainCounts, cacheFresh>>

\* a tab reports a change: onUpdated calls updateBadge
TabUpdated ==
    /\ events > 0
    /\ \E t \in TabIds : Exists(t)
    /\ events' = events - 1
    /\ updateBadge(getOptions, 1)
    /\ UNCHANGED <<store, toSet, orig, ret, tabs, focused, budget, cyc, domainCounts, cacheFresh>>

\* more than updateInterval (1000 ms) have passed since the last refresh of the cache
\* when a cycle is about to call getDomainCounts, the only reader of the clock
CacheExpires ==
    /\ cacheFresh
    /\ \E t \in TabIds : cyc[t].pc \in {"domain1", "timer"}
    /\ cacheFresh' = FALSE
    /\ UNCHANGED <<store, toSet, orig, ret, tabs, focused, budget, events, cyc, domainCounts, badge,
                   jobs, lastWrite>>

\* ------------------------------------------- DomainTracker and storage helpers
\* the "getDomainCounts" message of the options page: the entries of the Map
GetDomainCounts ==
    LET options == getOptions
    IN \E counts \in {currentDomainCounts(options)} :
          /\ domainCounts' = counts
          /\ cacheFresh' = (cacheStale \/ cacheFresh)
          /\ ret' = [fn |-> "getDomainCounts", countPinnedTabs |-> options.countPinnedTabs,
                     value |-> counts]
          /\ UNCHANGED <<store, toSet, orig, tabs, focused, budget, events, cyc, badge, jobs,
                         lastWrite>>

\* (tabCount / limit) * 100 without Math.min
percentageUncapped(tabCount, limit) == [num |-> tabCount * 100, den |-> limit]

\* Math.min(100, (tabCount / limit) * 100) as the fraction [num, den]; the quotient of a
\* negative limit is never above 100, and limit is never 0
percentage(tabCount, limit) ==
    IF limit > 0 /\ tabCount * 100 >= 100 * limit
    THEN [num |-> 100, den |-> 1]
    ELSE [num |-> tabCount * 100, den |-> limit]

Max2(a, b) == IF a >= b THEN a ELSE b

\* the object getDomainInfo and getTopDomains build for a domain
domainInfo(domain, tabCount, limit) ==
    [domain |-> domain, tabCount |-> tabCount, remaining |-> Max2(0, limit - tabCount),
     limit |-> limit, percentage |-> percentage(tabCount, limit)]

\* DomainTracker.getDomainInfo(domain, options)
GetDomainInfo(domain) ==
    LET options == getOptions
    IN \E counts \in {currentDomainCounts(options)} :
          /\ domainCounts' = counts
          /\ cacheFresh' = (cacheStale \/ cacheFresh)
          /\ ret' = [fn |-> "getDomainInfo", domain |-> domain, counts |-> counts,
                     maxDomain |-> store["maxDomain"], value |-> domainInfo(domain, domainTabCount(counts, domain),
                                          domainLimit(options))]
          /\ UNCHANGED <<store, toSet, orig, tabs, focused, budget, events, cyc, badge, jobs,
                         lastWrite>>

\* Array.prototype.sort((a, b) => b.tabCount - a.tabCount): a stable insertion sort
RECURSIVE insertByCount(_, _)
insertByCount(sorted, e) ==
    IF sorted = << >> THEN <<e>>
    ELSE IF sorted[Len(sorted)].tabCount >= e.tabCount THEN Append(sorted, e)
    ELSE Append(insertByCount(SubSeq(sorted, 1, Len(sorted) - 1), e), sorted[Len(sorted)])

\* the entries left in the insertion order of the Map
insertionOrder(entries) == entries

RECURSIVE sortByCount(_)
sortByCount(entries) ==
    IF entries = << >> THEN << >>
    ELSE insertByCount(sortByCount(SubSeq(entries, 1, Len(entries) - 1)),
                       entries[Len(entries)])

\* Array.prototype.slice(0, limit)
slice(entries, limit) ==
    LET end == IF limit < 0 THEN Max2(0, Len(entries) + limit)
               ELSE Min2(limit, Len(entries))
    IN SubSeq(entries, 1, end)

\* DomainTracker.getTopDomains(limit, options)
GetTopDomains(limit) ==
    LET options == getOptions
    IN \E counts \in {currentDomainCounts(options)} :
          LET infos == [i \in 1..Len(counts) |->
                          domainInfo(counts[i].domain, counts[i].tabCount,
                                     domainLimit(options))]
          IN /\ domainCounts' = counts
             /\ cacheFresh' = (cacheStale \/ cacheFresh)
             /\ ret' = [fn |-> "getTopDomains", limit |-> limit, counts |-> counts,
                        value |-> slice(sortByCount(infos), limit)]
             /\ UNCHANGED <<store, toSet, orig, tabs, focused, budget, events, cyc, badge,
                            jobs, lastWrite>>

\* the values setDomainLimit is called with: [type, nan, v]
NumberValue(n) == [type |-> "number", nan |-> FALSE, v |-> n]
NaNValue == [type |-> "number", nan |-> TRUE, v |-> 0]
NullValue == [type |-> "object", nan |-> FALSE, v |-> 0]
UndefinedValue == [type |-> "undefined", nan |-> FALSE, v |-> 0]
NumericString(n) == [type |-> "string", nan |-> FALSE, v |-> n]

\* limit < n and limit > n of numbers: false when limit is NaN
lessThan(limit, n) == ~limit.nan /\ limit.v < n
greaterThan(limit, n) == ~limit.nan /\ limit.v > n

\* typeof limit !== "number" || limit < 1 || limit > 50
limitRejected(limit) ==
    limit.type # "number" \/ lessThan(limit, 1) \/ greaterThan(limit, 50)

\* what chrome.storage keeps of a number: NaN is stored as null, which reads as 0
StoredNumber(limit) ==
    IF limit.nan THEN [set |-> TRUE, v |-> 0, null |-> TRUE] ELSE Stored(limit.v)

\* setDomainLimit(limit)
SetDomainLimit(limit) ==
    IF limitRejected(limit)
    THEN /\ ret' = [fn |-> "setDomainLimit", limit |-> limit, threw |-> TRUE]
         /\ UNCHANGED <<store, toSet, orig, tabs, focused, budget, events, cyc, domainCounts,
                        cacheFresh, badge, jobs, lastWrite>>
    ELSE /\ store' = [store EXCEPT !["maxDomain"] = StoredNumber(limit)]
         /\ ret' = [fn |-> "setDomainLimit", limit |-> limit, threw |-> FALSE]
         /\ updateBadge([getOptions EXCEPT !.maxDomain = StoredNumber(limit).v], 1)
         /\ UNCHANGED <<toSet, orig, tabs, focused, budget, events, cyc, domainCounts,
                        cacheFresh>>

\* saveOptions of the options page after the "Count pinned" box was clicked
SaveCountPinned ==
    LET value == ~getOptions.countPinnedTabs
    IN /\ store' = [store EXCEPT !["countPinnedTabs"] = Stored(value)]
       /\ updateBadge([getOptions EXCEPT !.countPinnedTabs = value], 1)
       /\ UNCHANGED <<toSet, orig, tabs, focused, budget, events, cyc, domainCounts,
                      cacheFresh, ret>>

\* ------------------------------------------------------------------ init()
Idle == [pc |-> "idle", keys |-> {}, runs |-> 0]
MaxInitRuns == 2

\* the keys a test of !result[key] would select
falsyKeys ==
    {k \in Keys : \/ ~store[k].set
                  \/ k \in {"maxTotal", "maxWindow", "maxDomain"} /\ store[k].v = 0
                  \/ k \in {"exceedTabNewWindow", "displayAlert", "countPinnedTabs",
                            "displayBadge"} /\ store[k].v = FALSE}

\* the keys of defaults with result[key] === undefined
undefinedKeys == {k \in Keys : ~store[k].set}

\* the callback of chrome.storage.sync.get: toSet is computed
InitGet ==
    /\ toSet.pc # "got" /\ toSet.runs < MaxInitRuns
    /\ toSet' = [toSet EXCEPT !.pc = "got", !.keys = undefinedKeys]
    /\ UNCHANGED <<store, orig, ret, tabs, focused, budget, events, cyc, domainCounts, cacheFresh,
                   badge, jobs, lastWrite>>

\* chrome.storage.sync.set(toSet), when toSet has a key
InitSet ==
    /\ toSet.pc = "got"
    /\ store' = IF toSet.keys # {}
                THEN [k \in Keys |-> IF k \in toSet.keys THEN Stored(defaults[k])
                                     ELSE store[k]]
                ELSE store
    /\ toSet' = [toSet EXCEPT !.pc = "done", !.runs = @ + 1]
    /\ UNCHANGED <<orig, ret, tabs, focused, budget, events, cyc, domainCounts, cacheFresh,
                   badge, jobs, lastWrite>>

\* ------------------------------------------------------------ specifications
Options(totals, windows, domains, relocate, alerts, badges) ==
    [maxTotal : totals, maxWindow : windows, maxDomain : domains,
     exceedTabNewWindow : relocate, displayAlert : alerts, countPinnedTabs : BOOLEAN,
     displayBadge : badges, alertMessage : {DefaultAlertMessage}]

\* n tabs are open: tab 1 is an unpinned example.com tab of window 1, the others
\* are other.org tabs, pinned or not, of the windows wins; the windows are
\* numbered in the order of their first tab
InitialTabs(n, wins) ==
    {[t \in TabIds |->
        IF t = 1 THEN [win |-> 1, pinned |-> FALSE, url |-> UrlExample]
        ELSE IF t <= n THEN [win |-> g[t].w, pinned |-> g[t].p, url |-> UrlOther]
        ELSE NoTab] :
     g \in {h \in [2..n -> [w : wins, p : BOOLEAN]] :
                \A t \in 2..n : \A w \in 2..(h[t].w - 1) : \E u \in 2..(t - 1) : h[u].w = w}}

Counted(o, f, w) ==
    Cardinality({t \in TabIds : /\ f[t].win # 0
                                /\ (w # 0 => f[t].win = w)
                                /\ (o.countPinnedTabs \/ ~f[t].pinned)})

\* no limit that is on is exceeded before the first creation event
WithinLimits(o, f) ==
    /\ (o.maxTotal >= 1 => Counted(o, f, 0) <= o.maxTotal)
    /\ (o.maxWindow >= 1 => \A w \in WinIds : Counted(o, f, w) <= o.maxWindow)

InitFrom(optionSet, tabSet, creations, envEvents, badgeTexts) ==
    /\ \E o \in optionSet : \E f \in tabSet :
          /\ WithinLimits(o, f)
          /\ store = [k \in Keys |-> Stored(o[k])]
          /\ tabs = f
    /\ orig = store
    /\ toSet = Idle
    /\ focused = 1
    /\ budget = creations
    /\ events = envEvents
    /\ cyc = [t \in TabIds |-> NoCycle]
    /\ domainCounts = << >>
    /\ cacheFresh = FALSE
    /\ badge \in badgeTexts
    /\ jobs = EmptyBag
    /\ lastWrite = "none"
    /\ ret = NoCall

Cycle(t) ==
    \/ DomainPass1(t)
    \/ RaceWindow1(t)
    \/ RaceTotal1(t)
    \/ DomainPass2(t)
    \/ RaceWindow2(t)
    \/ RaceTotal2(t)
    \/ ExceedTotalCheck(t)
    \/ ExceedWindows(t)
    \/ ExceedRecheck(t)
    \/ ExceedFocus(t)

\* the enforcement controller under bursts of creation events
Init ==
    InitFrom(Options({0, 2, 3}, {1, 2}, {0, 2}, BOOLEAN, BOOLEAN, {FALSE}),
             InitialTabs(SmallInit, {1, 2}), MaxCreate, 0, {<< >>})

Next ==
    \/ \E w \in WinIds, u \in {UrlWwwExample, UrlOther} : TabCreated(w, u)
    \/ \E t \in TabIds : Cycle(t)
    \/ CacheExpires

Spec == Init /\ [][Next]_vars

\* one creation event among many windows, relocation on
InitReloc ==
    InitFrom(Options({5, 6}, {1, 2}, {0}, {TRUE}, {TRUE}, {FALSE}),
             InitialTabs(LargeInit, {1, 2, 3}), 1, 0, {<< >>})

SpecReloc == InitReloc /\ [][Next]_vars

\* one creation event with the badge refreshes of the listeners
InitBadge ==
    InitFrom(Options({3}, {1, 2}, {0, 1, 2}, BOOLEAN, {TRUE}, BOOLEAN),
             InitialTabs(SmallInit, {1, 2}), 1, MaxEvents, {<< >>, <<"7">>})

NextBadge ==
    \/ Next
    \/ BadgeReadWindow
    \/ BadgeReadTotal
    \/ \E w \in WinIds : FocusChanged(w)
    \/ TabUpdated

SpecBadge == InitBadge /\ [][NextBadge]_vars

\* the Settings Store before init(): every key absent or holding some value; an
\* absent key reads as undefined, which "||" treats like 0
Absent(k) ==
    [set |-> FALSE,
     v |-> IF k \in {"maxTotal", "maxWindow", "maxDomain"} THEN 0
           ELSE IF k = "alertMessage" THEN << >> ELSE ~defaults[k]]

StoredValues(k) ==
    IF k \in {"maxTotal", "maxWindow", "maxDomain"} THEN {0, 7}
    ELSE IF k = "alertMessage" THEN {<< <<"Too many tabs">> >>}
    ELSE BOOLEAN

Entries(k) == {Absent(k)} \cup {Stored(v) : v \in StoredValues(k)}

InitStore ==
    /\ store \in [maxTotal : Entries("maxTotal"), maxWindow : Entries("maxWindow"),
                  maxDomain : Entries("maxDomain"),
                  exceedTabNewWindow : Entries("exceedTabNewWindow"),
                  displayAlert : Entries("displayAlert"),
                  countPinnedTabs : Entries("countPinnedTabs"),
                  displayBadge : Entries("displayBadge"),
                  alertMessage : Entries("alertMessage")]
    /\ orig = store
    /\ toSet = Idle
    /\ tabs = [t \in TabIds |-> NoTab]
    /\ focused = 1
    /\ budget = 0
    /\ events = 0
    /\ cyc = [t \in TabIds |-> NoCycle]
    /\ domainCounts = << >>
    /\ cacheFresh = FALSE
    /\ badge = << >>
    /\ jobs = EmptyBag
    /\ lastWrite = "none"
    /\ ret = NoCall

NextInit == InitGet \/ InitSet

SpecInit == InitStore /\ [][NextInit]_vars

\* the classifier over the URLs of two open tabs
ClassifiedTabs ==
    {[t \in TabIds |->
        IF t = 1 THEN [win |-> 1, pinned |-> FALSE, url |-> u]
        ELSE IF t = 2 THEN [win |-> 1, pinned |-> FALSE, url |-> v]
        ELSE NoTab] : u \in UrlInputs, v \in UrlPeers}

InitClassify ==
    InitFrom(Options({0}, {0}, {0}, {FALSE}, {FALSE}, {FALSE}), ClassifiedTabs, 0, 0, {<< >>})

NextClassify == GetDomainCounts

SpecClassify == InitClassify /\ [][NextClassify]_vars

\* the DomainTracker and the storage helpers over four open tabs
MaxTracked == 4
MaxLimit == 3

\* the pages a tab after the first may show
TrackedUrls(t) ==
    IF t = 2 THEN {UrlWwwExample, UrlOther}
    ELSE IF t = 3 THEN {UrlOther, UrlMail}
    ELSE {UrlMail, UrlWwwExample}

TrackedTabs ==
    {[t \in TabIds |->
        IF t = 1 THEN [win |-> 1, pinned |-> FALSE, url |-> UrlExample]
        ELSE IF t <= MaxTracked THEN [win |-> 1, pinned |-> (t = 2 /\ p), url |-> g[t]]
        ELSE NoTab] :
     g \in {h \in [2..MaxTracked -> {UrlWwwExample, UrlOther, UrlMail}] :
                \A t \in 2..MaxTracked : h[t] \in TrackedUrls(t)},
     p \in BOOLEAN}

TrackedDomains ==
    {<<"example", "com">>, <<"other", "org">>, <<"mail", "google", "com">>, <<"absent", "net">>}

LimitInputs ==
    {NumberValue(n) : n \in {-1, 0, 1, 50, 51}}
        \cup {NaNValue, NullValue, UndefinedValue, NumericString(5)}

InitTracker ==
    /\ \E o \in Options({0}, {0}, {0}, {FALSE}, {FALSE}, {FALSE}) : \E f \in TrackedTabs :
       \E e \in {Absent("maxDomain"), Stored(0), Stored(-1)} :
          /\ store = [k \in Keys |-> IF k = "maxDomain" THEN e ELSE Stored(o[k])]
          /\ tabs = f
    /\ orig = store
    /\ toSet = Idle
    /\ focused = 1
    /\ budget = 0
    /\ events = 0
    /\ cyc = [t \in TabIds |-> NoCycle]
    /\ domainCounts = << >>
    /\ cacheFresh = FALSE
    /\ badge = << >>
    /\ jobs = EmptyBag
    /\ lastWrite = "none"
    /\ ret = NoCall

\* more than updateInterval milliseconds pass since lastUpdate
CacheAges ==
    /\ cacheFresh
    /\ cacheFresh' = FALSE
    /\ UNCHANGED <<store, toSet, orig, ret, tabs, focused, budget, events, cyc, domainCounts,
                   badge, jobs, lastWrite>>

\* DomainTracker.clearCache(): the Map is emptied and lastUpdate set to 0
ClearCache ==
    /\ domainCounts' = << >>
    /\ cacheFresh' = FALSE
    /\ ret' = [fn |-> "clearCache"]
    /\ UNCHANGED <<store, toSet, orig, tabs, focused, budget, events, cyc, badge, jobs,
                   lastWrite>>

NextTracker ==
    \/ GetDomainCounts
    \/ \E domain \in TrackedDomains : GetDomainInfo(domain)
    \/ \E limit \in 0..MaxLimit : GetTopDomains(limit)
    \/ \E limit \in LimitInputs : SetDomainLimit(limit)
    \/ SaveCountPinned
    \/ CacheAges
    \/ ClearCache

SpecTracker == InitTracker /\ [][NextTracker]_vars

\* a burst of creation events in a window that is full, relocation on
MaxBurst == 3

InitBurst ==
    InitFrom(Options({3}, {1}, {0}, {TRUE}, {TRUE}, {FALSE}),
             InitialTabs(SmallInit, {1, 2}), MaxBurst, 0, {<< >>})

\* the created tabs show other.org and arrive within one updateInterval
NextBurst ==
    \/ \E w \in WinIds : TabCreated(w, UrlOther)
    \/ \E t \in TabIds : Cycle(t)

SpecBurst == InitBurst /\ [][NextBurst]_vars

\* one creation event under the scheduling of the event loop: a continuation
\* that is ready to run (a query callback, the 100 ms timer) does run
InitLive ==
    InitFrom(Options({2, 3}, {1, 2}, {0, 2}, BOOLEAN, {TRUE}, {FALSE}),
             InitialTabs(SmallInit, {1, 2}), 1, 0, {<< >>})

SpecLive == InitLive /\ [][Next]_vars /\ \A t \in TabIds : WF_vars(Cycle(t))

\* creation events with a host that fails calls and a user who closes tabs
MaxFaults == 1

InitHost ==
    InitFrom(Options({3}, {1}, {0, 2}, {TRUE}, {TRUE}, {FALSE}),
             InitialTabs(SmallInit, {1, 2}), MaxCreate, MaxFaults, {<< >>})

HostFails(t) ==
    \/ GetAllFails(t)
    \/ MoveFails(t)
    \/ FocusFails(t)
    \/ CreateFails(t)

QueryFails(t) ==
    \/ DomainQueryFails(t)
    \/ \E which \in {"window", "total"} : DetectorQueryFails(t, which)
    \/ ExceedQueryFails(t)
    \/ RecheckQueryFails(t)

NextHost ==
    \/ \E w \in WinIds : TabCreated(w, UrlOther)
    \/ \E t \in TabIds : Cycle(t)
    \/ CacheExpires
    \/ \E t \in TabIds : HostFails(t)
    \/ \E t \in TabIds : QueryFails(t)
    \/ \E t \in TabIds : TabClosedByUser(t)

SpecHost == InitHost /\ [][NextHost]_vars

\* two creation events in a window that is full, relocation on and the total
\* limit out of reach: both cycles look for a destination
InitCrowd ==
    InitFrom(Options({5}, {1, 2}, {0}, {TRUE}, {TRUE}, {FALSE}),
             InitialTabs(SmallInit, {1, 2}), MaxCreate, 0, {<< >>})

SpecCrowd == InitCrowd /\ [][NextBurst]_vars

\* one creation event among pages without a web domain: tab 1 is an
\* example.com tab, tab 2 and the new tab are new-tab, extension, data:, blob:,
\* file: or local-server pages, tabs without a URL, or example.com pages
SentinelTabs ==
    {[t \in TabIds |->
        IF t = 1 THEN [win |-> 1, pinned |-> FALSE, url |-> UrlExample]
        ELSE IF t = 2 THEN [win |-> w, pinned |-> p, url |-> u]
        ELSE NoTab] :
     w \in {1, 2}, p \in BOOLEAN,
     u \in {UrlExtension, UrlBlob, UrlFileRoot, UrlLoopback, UndefinedUrl, UrlWwwExample}}

CreatedUrls == {UrlNewTab, UrlData, UrlFile, UrlLocalhost, NoUrl, UrlWwwExample}

InitSentinel ==
    InitFrom(Options({3}, {1}, {1, 2}, BOOLEAN, {TRUE}, {FALSE}), SentinelTabs, 1, 0, {<< >>})

NextSentinel ==
    \/ \E w \in WinIds, u \in CreatedUrls : TabCreated(w, u)
    \/ \E t \in TabIds : Cycle(t)
    \/ CacheExpires

SpecSentinel == InitSentinel /\ [][NextSentinel]_vars

\* ------------------------------------------------------------ options page
\* the timer of the options page, setInterval(updateTabCounts, 1000), fires:
\* the page reads the options, counts the tabs and the windows, writes the
\* numbers into its elements and asks the background for the domain counts
\* (updateDomainList, getTopDomains(options, 10)); no "updateBadge" message is sent
UpdateTabCounts ==
    LET options == getOptions
        globalOpen == Cardinality(tabQuery(options, FALSE))
        windowOpen == Cardinality(tabQuery(options, TRUE))
    IN \E counts \in {currentDomainCounts(options)} :
          LET infos == [i \in 1..Len(counts) |->
                          domainInfo(counts[i].domain, counts[i].tabCount,
                                     domainLimit(options))]
          IN /\ domainCounts' = counts
             /\ cacheFresh' = (cacheStale \/ cacheFresh)
             /\ ret' = [fn |-> "updateTabCounts",
                        globalOpen |-> globalOpen,
                        globalLeft |-> Max2(0, options.maxTotal - globalOpen),
                        windowOpen |-> windowOpen,
                        windowLeft |-> Max2(0, options.maxWindow - windowOpen),
                        windowCount |-> Cardinality(OpenWindows),
                        domains |-> slice(sortByCount(infos), 10)]
             /\ UNCHANGED <<store, toSet, orig, tabs, focused, budget, events, cyc, badge,
                            jobs, lastWrite>>

\* one creation while the options page is open: every continuation, every
\* callback of a badge query and the timer of the page get their turn
InitTimer ==
    InitFrom(Options({3}, {1, 2}, {0}, BOOLEAN, {TRUE}, {TRUE}),
             InitialTabs(SmallInit, {1, 2}), 1, 0, {<< >>, <<"7">>})

NextTimer ==
    \/ Next
    \/ BadgeReadWindow
    \/ BadgeReadTotal
    \/ UpdateTabCounts

SpecTimer ==
    /\ InitTimer /\ [][NextTimer]_vars
    /\ \A t \in TabIds : WF_vars(Cycle(t))
    /\ WF_vars(BadgeReadWindow) /\ WF_vars(BadgeReadTotal)
    /\ WF_vars(UpdateTabCounts)

\* ==================================================================== claims
opt == getOptions

\* the tabs that count toward the limits: all, or the unpinned ones
CountedTabs == {t \in TabIds : Exists(t) /\ (opt.countPinnedTabs \/ ~tabs[t].pinned)}
TotalCount == Cardinality(CountedTabs)
WindowCount(w) == Cardinality({t \in CountedTabs : tabs[t].win = w})

\* no cycle has a continuation left to run: each has ended ("done"), has not
\* started, or waits on a Promise.race that no detector will resolve ("hung")
Settled == \A t \in TabIds : cyc[t].pc \in {"none", "done", "hung"}

\* C1 (as amended): from a state within the total limit, with maxTotal >= 1,
\* once every cycle has settled the counted total is at most maxTotal.
C1_TotalCeiling ==
    (Settled /\ opt.maxTotal >= 1) => TotalCount <= opt.maxTotal

\* C1 (as stated): ... and each tab whose creation left the total above
\* maxTotal has been removed.
C1_OffenderRemoved ==
    (Settled /\ opt.maxTotal >= 1) =>
        /\ TotalCount <= opt.maxTotal
        /\ \A t \in TabIds : cyc[t].over => ~Exists(t)

\* a burst of two creations has settled with the second tab closed under "total"
C1_Witness ==
    /\ Settled /\ budget = 0 /\ opt.maxTotal >= 1
    /\ TotalCount = opt.maxTotal
    /\ \E t \in TabIds : cyc[t].over /\ cyc[t].act = "removed" /\ cyc[t].under = "total"

\* C2 (as stated): with exceedTabNewWindow off and maxWindow >= 1, once the
\* cycles have settled every window holds at most maxWindow counted tabs.
C2_WindowLimit ==
    (Settled /\ ~opt.exceedTabNewWindow /\ opt.maxWindow >= 1) =>
        \A w \in WinIds : WindowCount(w) <= opt.maxWindow

Contains(msg, token) == \E i \in 1..Len(msg) : msg[i] = token

\* C3 (as stated): the notification of a domain closure contains the domain
\* name of the closed tab and the configured maxDomain.
C3_DomainAlert ==
    \A t \in TabIds :
        (cyc[t].notified /\ cyc[t].under = "domain") =>
            /\ Contains(cyc[t].msg, extractDomainFromUrl(cyc[t].url))
            /\ Contains(cyc[t].msg, numberToString(opt.maxDomain))

\* C4: a cycle that acts while the total limit is violated removes its tab; no
\* tab is moved or given a new window in a state that violates the total limit.
TotalViolated == opt.maxTotal >= 1 /\ TotalCount > opt.maxTotal

C4_TotalOverWindow ==
    [][\A t \in TabIds :
          /\ (cyc[t].act = "none" /\ cyc'[t].act \in {"moved", "newwin"}) => ~TotalViolated
          /\ (TotalViolated /\ cyc[t].pc \in {"exceed", "recheck"} /\ cyc'[t] # cyc[t]) =>
                /\ ~Exists(t)'
                /\ cyc'[t].act = "removed"
                /\ tabs'[t] = NoTab]_vars

\* a cycle entered for "window", with relocation on, has closed its tab under
\* "total" and left the total at the limit
C4_Witness ==
    \E t \in TabIds :
        /\ opt.exceedTabNewWindow /\ opt.maxTotal >= 1
        /\ cyc[t].place = "window" /\ cyc[t].act = "removed" /\ cyc[t].under = "total"
        /\ cyc[t].over

\* C5: with relocation on and only the window limit violated the tab is not
\* removed but moved to an open window of positive, maximal spare capacity,
\* which is then focused; it gets a new focused window exactly when no open
\* window has positive spare capacity.
SpareCapacity(w) == opt.maxWindow - WindowCount(w)

C5_RelocationTarget ==
    [][\A t \in TabIds :
        /\ (/\ cyc[t].pc \in {"exceed", "recheck"} /\ cyc'[t] # cyc[t]
            /\ cyc[t].place = "window" /\ opt.exceedTabNewWindow
            /\ ~TotalViolated) => cyc'[t].act # "removed"
        /\ (cyc[t].pc = "windows" /\ cyc'[t].pc = "recheck") =>
              IF \E w \in OpenWindows : SpareCapacity(w) > 0
              THEN /\ cyc'[t].best \in OpenWindows
                   /\ SpareCapacity(cyc'[t].best) > 0
                   /\ \A w \in OpenWindows : SpareCapacity(w) <= SpareCapacity(cyc'[t].best)
              ELSE cyc'[t].best = 0
        /\ (cyc[t].act = "none" /\ cyc'[t].act = "moved") =>
              /\ cyc[t].best # 0
              /\ tabs'[t].win = cyc[t].best
        /\ (cyc[t].act = "none" /\ cyc'[t].act = "newwin") =>
              /\ cyc[t].best = 0
              /\ tabs'[t].win \notin OpenWindows
              /\ focused' = tabs'[t].win
        /\ (cyc[t].pc = "focus" /\ cyc'[t].pc = "done") =>
              /\ tabs'[t].win = cyc[t].best
              /\ focused' = cyc[t].best]_vars

\* C6: a badge write is "" when displayBadge is off, and otherwise the decimal
\* form of min(maxWindow - window count, maxTotal - total count) of the counts
\* that refresh read.
IsDigit(c) == \E d \in 0..9 : DigitStr[d + 1] = c
DigitOf(c) == CHOOSE d \in 0..9 : DigitStr[d + 1] = c

RECURSIVE NatValue(_)
NatValue(ds) ==
    IF Len(ds) = 0 THEN 0
    ELSE 10 * NatValue(SubSeq(ds, 1, Len(ds) - 1)) + DigitOf(ds[Len(ds)])

IsDecimal(text) ==
    /\ text # << >>
    /\ LET ds == IF text[1] = "-" THEN Tail(text) ELSE text
       IN /\ ds # << >>
          /\ \A i \in 1..Len(ds) : IsDigit(ds[i])
          /\ (Len(ds) > 1 => ds[1] # "0")
          /\ (text[1] = "-" => ds # <<"0">>)

DecimalValue(text) == IF text[1] = "-" THEN -NatValue(Tail(text)) ELSE NatValue(text)

C7_Feedback ==
    \A t \in TabIds :
        /\ cyc[t].act # "none" => (cyc[t].badgeCalls >= 1 /\ lastWrite # "none")
        /\ (cyc[t].pc = "done" /\ opt.displayAlert) => (cyc[t].notified /\ cyc[t].msg # << >>)
        /\ ~opt.displayAlert => (~cyc[t].notified /\ cyc[t].msg = << >>)

\* removals and relocations, each with its notification
C7_Witness ==
    /\ opt.displayAlert
    /\ \E t, u \in TabIds :
          /\ cyc[t].pc = "done" /\ cyc[t].act = "removed" /\ cyc[t].notified
          /\ cyc[u].pc = "done" /\ cyc[u].act \in {"moved", "newwin"} /\ cyc[u].notified

\* C8 (as stated): no tab is closed, relocated or alerted under a category
\* whose cap is below 1.
C8_DisabledCaps ==
    \A t \in TabIds : \A place \in {"total", "window", "domain"} :
        opt[maxKey(place)] < 1 => cyc[t].under # place

\* C9: every count a step reads (total, current window, per-window spare
\* capacity, badge remaining) leaves the pinned tabs out when countPinnedTabs
\* is off and counts them like any other tab when it is on.
OpenTabs == {t \in TabIds : Exists(t)}
PinnedTabs == {t \in OpenTabs : tabs[t].pinned}
InWindow(S, w) == {t \in S : tabs[t].win = w}

ExpectedTotal ==
    IF opt.countPinnedTabs THEN Cardinality(OpenTabs)
    ELSE Cardinality(OpenTabs) - Cardinality(PinnedTabs)

ExpectedWindow(w) ==
    IF opt.countPinnedTabs THEN Cardinality(InWindow(OpenTabs, w))
    ELSE Cardinality(InWindow(OpenTabs, w)) - Cardinality(InWindow(PinnedTabs, w))

WindowOver == opt.maxWindow >= 1 /\ ExpectedWindow(focused) > opt.maxWindow
TotalOver == opt.maxTotal >= 1 /\ ExpectedTotal > opt.maxTotal

C9_PinnedTabs ==
    [][/\ \A t \in TabIds :
            \* the detectors of the two races
            /\ (cyc[t].pc \in {"race1", "race2"} /\ ~cyc[t].wdone /\ cyc'[t].wdone) => ~WindowOver
            /\ (cyc[t].pc \in {"race1", "race2"} /\ ~cyc[t].tdone /\ cyc'[t].tdone) => ~TotalOver
            /\ (cyc[t].pc = "race1" /\ cyc'[t].pc = "timer") => (WindowOver \/ TotalOver)
            /\ (cyc[t].pc = "race2" /\ cyc'[t].pc = "exceed") =>
                  /\ cyc'[t].place = "window" => WindowOver
                  /\ cyc'[t].place = "total" => TotalOver
            \* the two total checks of handleExceedTabs
            /\ (cyc[t].pc \in {"exceed", "recheck"} /\ cyc'[t].pc # cyc[t].pc) =>
                  ((cyc'[t].act = "removed" /\ cyc'[t].under = "total")
                        <=> ExpectedTotal >= opt.maxTotal)
            \* the spare capacities of the relocation
            /\ (cyc[t].pc = "windows" /\ cyc'[t].pc = "recheck") =>
                  \A w \in OpenWindows : cyc'[t].caps[w] = opt.maxWindow - ExpectedWindow(w)
       \* the two reads of a badge refresh
       /\ \A j \in BagToSet(jobs) :
            /\ (j.w = Pending /\ j.t = Pending) =>
                  /\ \A n \in 0..Cardinality(TabIds) :
                        jobs' = (jobs (-) SetToBag({j})) (+) SetToBag({[j EXCEPT !.w = n]})
                            => n = ExpectedWindow(focused)
                  /\ \A n \in 0..Cardinality(TabIds) :
                        jobs' = (jobs (-) SetToBag({j})) (+) SetToBag({[j EXCEPT !.t = n]})
                            => n = ExpectedTotal
            /\ (jobs' = jobs (-) SetToBag({j}) /\ j.t = Pending) =>
                  DecimalValue(badge') = Min2(opt.maxWindow - j.w, opt.maxTotal - ExpectedTotal)
            /\ (jobs' = jobs (-) SetToBag({j}) /\ j.w = Pending) =>
                  DecimalValue(badge') = Min2(opt.maxWindow - ExpectedWindow(focused),
                                              opt.maxTotal - j.t)]_vars

\* pinned tabs are open and not counted: a cycle has acted and the badge is written
C9_Witness ==
    /\ ~opt.countPinnedTabs
    /\ \E p \in PinnedTabs : tabs[p].win = focused
    /\ lastWrite = "min" /\ jobs = EmptyBag
    /\ DecimalValue(badge) = opt.maxWindow - ExpectedWindow(focused)
    /\ \E t \in TabIds : cyc[t].pc = "done"

\* C10: after init() every key that was stored keeps its value and every absent
\* key holds its default; a second run of init() changes nothing.
ClaimedDefaults ==
    [maxTotal |-> 50, maxWindow |-> 20, maxDomain |-> 10, exceedTabNewWindow |-> FALSE,
     displayAlert |-> TRUE, countPinnedTabs |-> FALSE, displayBadge |-> FALSE]

C10_DefaultSeeding ==
    toSet.runs >= 1 =>
        /\ \A k \in Keys : store[k].set
        /\ \A k \in Keys : orig[k].set => store[k] = orig[k]
        /\ \A k \in DOMAIN ClaimedDefaults : ~orig[k].set => store[k].v = ClaimedDefaults[k]
        /\ toSet.pc = "got" => toSet.keys = {}

\* two runs over a store where some keys were absent and displayAlert was stored off
C10_Witness ==
    /\ toSet.runs = 2
    /\ ~orig["maxTotal"].set /\ store["maxTotal"].v = 50
    /\ orig["displayAlert"].set /\ ~store["displayAlert"].v
    /\ orig["maxWindow"].set /\ store["maxWindow"].v = 0

\* ------------------------------------------------------------------ C11
\* "http://" and "https://" pages whose URL parses
IsWebUrl(url) ==
    /\ url.type = "string"
    /\ \E p \in WebPrefixes : startsWith(url.text, p)
    /\ parseUrl(url.text).ok

hostnameOf(url) == parseUrl(url.text).hostname

IsIpLiteral(hostname) ==
    ipv4Regex(hostname) \/ (Len(hostname) = 1 /\ hostname[1] \in IPv6Literals)

\* a host name of at least two labels that is no address
IsDomainName(hostname) ==
    /\ Len(hostname) >= 2
    /\ ~IsIpLiteral(hostname)
    /\ \A i \in 1..Len(hostname) : hostname[i] # ""

\* C11: when the counts are built for two open tabs, two web URLs whose host names
\* share a registrable root domain are counted under one key, and two URLs
\* of distinct IP addresses are counted under two keys.
C11_DomainGrouping ==
    ret.fn = "getDomainCounts" =>
        \A t, u \in OpenTabs :
            LET a == tabs[t].url
                b == tabs[u].url
            IN (IsWebUrl(a) /\ IsWebUrl(b)) =>
                /\ mapHas(ret.value, extractDomainFromUrl(a))
                /\ (/\ IsDomainName(hostnameOf(a)) /\ IsDomainName(hostnameOf(b))
                    /\ rootDomain(hostnameOf(a)) = rootDomain(hostnameOf(b)))
                        => extractDomainFromUrl(a) = extractDomainFromUrl(b)
                /\ (/\ IsIpLiteral(hostnameOf(a)) /\ IsIpLiteral(hostnameOf(b))
                    /\ hostnameOf(a) # hostnameOf(b))
                        => extractDomainFromUrl(a) # extractDomainFromUrl(b)

\* ------------------------------------------------------------------ C12
\* the key the first tab was counted under: the first entry of the Map
firstKey == ret.value[1].domain

IsSystemUrl(url) ==
    \/ startsWith(url.text, <<"chrome", ":", "//">>)
    \/ startsWith(url.text, <<"chrome-extension", ":", "//">>)
    \/ startsWith(url.text, <<"moz-extension", ":", "//">>)
IsDataUrl(url) == startsWith(url.text, <<"data", ":">>) \/ startsWith(url.text, <<"blob", ":">>)
IsFileUrl(url) == startsWith(url.text, <<"file", ":", "//">>)
NotText(url) == url.type # "string" \/ url.text = << >>
Unparseable(url) == ~parseUrl(url.text).ok

\* the host as it is written after "scheme://"
writtenHost(url) ==
    LET authority == SubSeq(url.text, 4, Len(url.text))
    IN SubSeq(authority, 1, hostEnd(authority, 1))

\* a dotted quad of numbers below 256, or a bracketed IPv6 literal
WrittenIp(url) ==
    /\ Len(url.text) >= 4 /\ url.text[2] = ":" /\ url.text[3] = "//"
    /\ \/ \E q \in [1..4 -> NumericLabels] :
             /\ \A i \in 1..4 : NumericValue(q[i]) < 256
             /\ writtenHost(url) = dotted(q)
       \/ Len(writtenHost(url)) = 1 /\ writtenHost(url)[1] \in IPv6Literals

IsLocalhost(url) == hostnameOf(url) \in {<<"localhost">>, <<"127", "0", "0", "1">>}

\* the host as written, as a key
verbatim(url) ==
    IF Len(writtenHost(url)) = 1 THEN writtenHost(url)
    ELSE [i \in 1..4 |-> writtenHost(url)[2 * i - 1]]

\* C12 (as stated): the classifier decides by first match in the order: no text or
\* unparseable text gives "unknown"; a chrome://, chrome-extension:// or
\* moz-extension:// URL gives "system"; data: or blob: gives "data"; file:// gives
\* "file"; the host localhost or 127.0.0.1 gives "localhost"; another dotted quad
\* or bracketed IPv6 literal is the key as written.
C12_SentinelOrder ==
    ret.fn = "getDomainCounts" =>
        LET url == tabs[1].url
        IN IF NotText(url) \/ Unparseable(url) THEN firstKey = <<"unknown">>
           ELSE IF IsSystemUrl(url) THEN firstKey = <<"system">>
           ELSE IF IsDataUrl(url) THEN firstKey = <<"data">>
           ELSE IF IsFileUrl(url) THEN firstKey = <<"file">>
           ELSE IF IsLocalhost(url) THEN firstKey = <<"localhost">>
           ELSE IF WrittenIp(url) THEN firstKey = verbatim(url)
           ELSE TRUE

\* C12 (as amended): the prefixes are matched before the text is parsed, and a text
\* that starts with "localhost" gives "localhost" whether it parses or not; only a
\* text none of the prefixes matches gives "unknown" when it does not parse.
C12_PrefixesFirst ==
    ret.fn = "getDomainCounts" =>
        LET url == tabs[1].url
        IN IF NotText(url) THEN firstKey = <<"unknown">>
           ELSE IF IsSystemUrl(url) THEN firstKey = <<"system">>
           ELSE IF IsDataUrl(url) THEN firstKey = <<"data">>
           ELSE IF IsFileUrl(url) THEN firstKey = <<"file">>
           ELSE IF startsWith(url.text, <<"localhost">>) THEN firstKey = <<"localhost">>
           ELSE IF Unparseable(url) THEN firstKey = <<"unknown">>
           ELSE IF IsLocalhost(url) THEN firstKey = <<"localhost">>
           ELSE IF WrittenIp(url) THEN firstKey = verbatim(url)
           ELSE TRUE

\* an extension page whose URL does not parse was counted as "system"
C12_Witness ==
    /\ ret.fn = "getDomainCounts"
    /\ tabs[1].url = StringValue(<<"chrome", ":", "//", "example", " ", "com", "/">>)
    /\ Unparseable(tabs[1].url)
    /\ firstKey = <<"system">>

\* ------------------------------------------------------------------ C13
\* the labels of the host as written, in lower case
writtenLabels(url) ==
    [i \in DOMAIN hostLabels(writtenHost(url)) |-> toLowerCase(hostLabels(writtenHost(url))[i])]

\* an http or https URL that parses and whose host is a name, not an address
IsOrdinaryUrl(url) ==
    /\ IsWebUrl(url)
    /\ ~IsIpLiteral(hostnameOf(url))
    /\ \A i \in 1..Len(writtenLabels(url)) : writtenLabels(url)[i] # ""

\* the host name without one leading "www."
withoutWww(labels) ==
    IF Len(labels) >= 2 /\ labels[1] = "www" THEN Tail(labels) ELSE labels

included(v, domain) == \E i \in 1..Len(v) : v[i].domain = domain

\* C14: getTopDomains(limit) returns at most limit entries in the order of
\* non-increasing tabCount; every entry is a key of the counts with its count, no
\* key is returned twice, no key left out has a larger count than a returned
\* one, and with fewer than limit keys all of them are returned.
C14_TopDomains ==
    ret.fn = "getTopDomains" =>
        LET v == ret.value
            counts == ret.counts
        IN /\ Len(v) <= ret.limit
           /\ \A i, j \in 1..Len(v) : i < j => v[i].tabCount >= v[j].tabCount
           /\ \A i \in 1..Len(v) :
                 /\ mapHas(counts, v[i].domain)
                 /\ v[i].tabCount = mapGet(counts, v[i].domain)
           /\ \A i, j \in 1..Len(v) : i # j => v[i].domain # v[j].domain
           /\ \A k \in 1..Len(counts) :
                 ~included(v, counts[k].domain) =>
                    \A i \in 1..Len(v) : counts[k].tabCount <= v[i].tabCount
           /\ Len(counts) <= ret.limit =>
                 \A k \in 1..Len(counts) : included(v, counts[k].domain)
           /\ Len(v) = Min2(ret.limit, Len(counts))

\* of three domains the two largest were returned, the last key of the Map first
C14_Witness ==
    /\ ret.fn = "getTopDomains"
    /\ ret.limit = 2
    /\ Len(ret.counts) = 3
    /\ Len(ret.value) = 2
    /\ ret.value[1].domain = ret.counts[3].domain
    /\ ret.value[1].tabCount = 2
    /\ ret.value[2].tabCount = 1

\* ------------------------------------------------------------------ C15
\* remaining, tabCount and percentage of the object v for the limit it reports
InfoArithmetic(v, counts, domain) ==
    /\ v.domain = domain
    /\ v.tabCount = (IF mapHas(counts, domain) THEN mapGet(counts, domain) ELSE 0)
    /\ v.remaining = (IF v.limit - v.tabCount > 0 THEN v.limit - v.tabCount ELSE 0)
    /\ IF v.limit > 0 /\ v.tabCount >= v.limit
       THEN v.percentage.num = 100 * v.percentage.den
       ELSE v.percentage.num * v.limit = 100 * v.tabCount * v.percentage.den
    /\ v.limit > 0 =>
          /\ v.remaining >= 0
          /\ v.percentage.den > 0
          /\ 0 <= v.percentage.num
          /\ v.percentage.num <= 100 * v.percentage.den

ValidLimit(limit) == limit.type = "number" /\ ~limit.nan /\ 1 <= limit.v /\ limit.v <= 50

\* C16: a call of setDomainLimit(limit) stores maxDomain = limit when limit is a number
\* with 1 <= limit <= 50; for every other input it fails with an error, leaves
\* the Settings Store as it was and asks for no refresh of the badge.
C16_DomainLimitValidation ==
    [][(ret'.fn = "setDomainLimit" /\ ret' # ret) =>
          IF ValidLimit(ret'.limit)
          THEN /\ ~ret'.threw
               /\ store' = [store EXCEPT !["maxDomain"] = Stored(ret'.limit.v)]
          ELSE /\ ret'.threw
               /\ UNCHANGED <<store, badge, jobs, lastWrite>>]_vars

\* ------------------------------------------------------------------ C17
\* the counted tabs of a domain, and what is left of the domain limit
DomainCount(domain) ==
    Cardinality({t \in CountedTabs : domainOf[tabs[t].url] = domain})
DomainRemaining(domain) ==
    IF opt.maxDomain - DomainCount(domain) > 0 THEN opt.maxDomain - DomainCount(domain) ELSE 0

\* the tabs that can be the active tab: those of the focused window
ActiveCandidates == {t \in TabIds : Exists(t) /\ tabs[t].win = focused}

\* C17: with displayBadge on and a domain limit set, the badge text a refresh writes
\* is the least of the remaining total, the remaining window and the remaining
\* domain capacity of the active tab's domain (some tab of the focused window).
C17_BadgeDomain ==
    [][\A j \in BagToSet(jobs) :
          (/\ jobs' = jobs (-) SetToBag({j})
           /\ opt.displayBadge /\ opt.maxDomain >= 1 /\ ActiveCandidates # {}) =>
              LET w == IF j.w = Pending THEN WindowCount(focused) ELSE j.w
                  t == IF j.t = Pending THEN TotalCount ELSE j.t
              IN \E a \in ActiveCandidates :
                    /\ IsDecimal(badge')
                    /\ DecimalValue(badge') =
                          Min2(Min2(opt.maxWindow - w, opt.maxTotal - t),
                               DomainRemaining(domainOf[tabs[a].url]))]_vars

\* ------------------------------------------------------------------ C18
\* the open tabs of a domain that count under the setting countPinned
TabsCounted(domain, countPinned) ==
    Cardinality({t \in TabIds : /\ Exists(t)
                                /\ (countPinned \/ ~tabs[t].pinned)
                                /\ domainOf[tabs[t].url] = domain})

\* C18: the counts a call of getDomainCounts(options) returns leave the pinned tabs out
\* when options.countPinnedTabs is off and hold them when it is on, also when
\* the setting has just been changed.
C18_PinnedDomainCounts ==
    ret.fn = "getDomainCounts" =>
        \A domain \in TrackedDomains :
            mapGet(ret.value, domain) = TabsCounted(domain, ret.countPinnedTabs)

\* ------------------------------------------------------------------ C19
\* C19: a cycle closes its tab under the domain category, with the notification of
\* "domain", only in a state where the total limit is not violated; a tab that
\* violates both limits is closed under "total".
C19_TotalBeforeDomain ==
    [][\A t \in TabIds :
          (cyc[t].act = "none" /\ cyc'[t].act = "removed" /\ cyc'[t].under = "domain") =>
              ~TotalViolated]_vars

\* ------------------------------------------------------------------ C20
\* the window that holds tab t has more counted tabs than maxWindow
OwnWindowOver(t) == opt.maxWindow >= 1 /\ WindowCount(tabs[t].win) > opt.maxWindow

\* C20: the window check of a cycle judges the window that holds its tab: the check
\* reports a violation (the cycle enters handleExceedTabs for "window") only
\* when that window is over maxWindow, and it stays silent only when that
\* window is not, whichever window has the focus.
C20_WindowScope ==
    [][\A t \in TabIds :
          Exists(t) =>
              /\ (cyc[t].place # "window" /\ cyc'[t].place = "window") => OwnWindowOver(t)
              /\ (~cyc[t].wdone /\ cyc'[t].wdone) => ~OwnWindowOver(t)]_vars

\* ------------------------------------------------------------------ C21
\* C21: with the total limit on, a cycle closes its tab under the total category
\* only in a state whose counted total, the tab included, is strictly above
\* maxTotal; a total that equals maxTotal closes no tab under "total", whether
\* the window limit is violated or relocation is on.
C21_StrictTotal ==
    [][\A t \in TabIds :
          (opt.maxTotal >= 1 /\ cyc[t].under # "total" /\ cyc'[t].under = "total") =>
              TotalCount > opt.maxTotal]_vars

\* ------------------------------------------------------------------ C22
\* the domain check of the cycle of tab t reports "domain"
DomainReported(t) ==
    \/ cyc[t].pc = "domain1" /\ cyc'[t].pc = "done"
    \/ cyc[t].pc = "timer" /\ cyc'[t].pc = "exceed"

\* the domain check of the cycle of tab t finds nothing
DomainSilent(t) ==
    \/ cyc[t].pc = "domain1" /\ cyc'[t].pc = "race1"
    \/ cyc[t].pc = "timer" /\ cyc'[t].pc = "race2"

\* C22: with a domain limit set, a domain check of the cycle of an open tab reports
\* a violation exactly when the counted tabs open at that moment with the Domain
\* Key of the created tab, that tab included, number maxDomain or more.
C22_DomainComparison ==
    [][\A t \in TabIds :
          (Exists(t) /\ opt.maxDomain >= 1) =>
              /\ DomainReported(t) => DomainCount(domainOf[cyc[t].url]) >= opt.maxDomain
              /\ DomainSilent(t) => DomainCount(domainOf[cyc[t].url]) < opt.maxDomain]_vars

\* ------------------------------------------------------------------ C23
\* C23: a cycle whose domain check reported a violation never lists the windows,
\* moves its tab or gives it a new window, whatever exceedTabNewWindow and the
\* window counts are; when it ends its tab has been removed.
C23_DomainNoRelocation ==
    \A t \in TabIds :
        (cyc[t].place = "domain" \/ cyc[t].under = "domain") =>
            /\ cyc[t].pc \in {"exceed", "done"}
            /\ cyc[t].act \in {"none", "removed"}
            /\ ~cyc[t].moved
            /\ cyc[t].pc = "done" => (cyc[t].act = "removed" /\ ~Exists(t))

\* with relocation on, a tab reported for "domain" by the second pass has been
\* removed under "domain" while every open window is still at or above maxWindow
C23_Witness ==
    \E t \in TabIds :
        /\ opt.exceedTabNewWindow /\ opt.maxWindow >= 1
        /\ cyc[t].place = "domain" /\ cyc[t].under = "domain"
        /\ cyc[t].pc = "done" /\ cyc[t].act = "removed"
        /\ \A w \in OpenWindows : WindowCount(w) >= opt.maxWindow

\* ------------------------------------------------------------------ C24
\* C24: a move or a window creation is issued only by the step that queries the
\* total again, after the destination was chosen, and only when that query finds
\* the total limit not violated; when it finds it violated the tab is removed
\* under "total", with the alert of "total", and is not relocated.
C24_RecheckBeforeRelocation ==
    [][\A t \in TabIds :
          /\ (cyc[t].act = "none" /\ cyc'[t].act \in {"moved", "newwin"}) =>
                /\ cyc[t].pc = "recheck"
                /\ DOMAIN cyc[t].caps # {}
                /\ ~TotalViolated
          /\ (cyc[t].pc = "recheck" /\ cyc'[t] # cyc[t] /\ TotalViolated) =>
                /\ cyc'[t].act = "removed" /\ cyc'[t].under = "total"
                /\ cyc'[t].notified = opt.displayAlert
                /\ ~cyc'[t].moved
                /\ tabs'[t] = NoTab
                /\ cyc'[t].pc = "done"]_vars

\* a cycle that had chosen its destination closed its tab under "total": two
\* more tabs had been created, and the total is at maxTotal after the removal
C24_Witness ==
    \E t \in TabIds :
        /\ DOMAIN cyc[t].caps # {}
        /\ cyc[t].pc = "done" /\ cyc[t].act = "removed" /\ cyc[t].under = "total"
        /\ opt.maxTotal >= 1 /\ TotalCount >= opt.maxTotal
        /\ \A u \in TabIds \ {t} : cyc[u].act = "none"

\* ------------------------------------------------------------------ C25
\* C25: a tab is removed, moved or given a new window only by a cycle whose
\* second pass, the re-evaluation after the settle delay, has reported a
\* category; the first pass issues no command.
C25_SecondPassActs ==
    \A t \in TabIds : cyc[t].act # "none" => cyc[t].place # "none"

\* ------------------------------------------------------------------ C26
\* C26: the immediate pass of every cycle is followed by the pass of the settle
\* delay: a cycle leaves its first pass (the domain check, the race of the two
\* detectors) only by starting the 100 ms timer, whatever the first pass found.
C26_TwoPasses ==
    [][\A t \in TabIds :
          cyc[t].pc \in {"domain1", "race1"} =>
              cyc'[t].pc \in {"domain1", "race1", "timer"}]_vars

\* ------------------------------------------------------------------ C27
\* C27: every cycle that a creation event starts comes to its end: the promise of
\* handleTabCreated settles and no continuation of the cycle is left waiting.
C27_CycleTermination ==
    \A t \in TabIds : (cyc[t].pc # "none") ~> (cyc[t].pc = "done")

\* ------------------------------------------------------------------ C28
\* C28: a cycle in which a host call of the relocation path failed (listing the
\* windows, moving the tab, focusing the destination, creating a window) has
\* caught the error, removed its tab and alerted under "window", without the
\* notice of a relocation.
C28_RelocationFallback ==
    \A t \in TabIds :
        (cyc[t].pc = "done" /\ cyc[t].fault \in {"getAll", "move", "update", "create"}) =>
            /\ ~cyc[t].uncaught
            /\ cyc[t].act = "removed" /\ ~Exists(t)
            /\ cyc[t].under = "window" /\ ~cyc[t].moved

\* ------------------------------------------------------------------ C29
\* C29: a step of a cycle whose tab the user has closed changes neither the tabs
\* nor the windows and leaves no error without a handler.
C29_VanishedTab ==
    [][\A t \in TabIds :
          (~Exists(t) /\ cyc[t].fault = "closed" /\ cyc'[t] # cyc[t]) =>
              /\ tabs' = tabs /\ focused' = focused
              /\ ~cyc'[t].uncaught]_vars

\* ------------------------------------------------------------------ C30
\* C30: a step of a cycle whose tab query fails reports no category, removes and
\* moves no tab, and leaves no error without a handler.
C30_FailOpen ==
    [][\A t \in TabIds :
          (events' < events /\ cyc'[t] # cyc[t] /\ cyc'[t].fault = "query") =>
              /\ tabs' = tabs
              /\ cyc'[t].act = cyc[t].act
              /\ cyc'[t].place = cyc[t].place /\ cyc'[t].under = cyc[t].under
              /\ ~cyc'[t].uncaught]_vars

\* ------------------------------------------------------------------------
\* C31: the badge is recomputed after every tab-created event, whether or not
\* a limit is exceeded: a handleTabCreated cycle that has run as far as it
\* ever will (it ended, or its race can no longer resolve) has called
\* updateBadge at least once.
C31_RefreshOnEveryEvent ==
    \A t \in TabIds : cyc[t].pc \in {"done", "hung"} => cyc[t].badgeCalls >= 1

\* no refresh of the badge is in flight and no cycle has a continuation left
BadgeQuiet == Settled /\ jobs = EmptyBag

\* C32: with displayBadge on, once a tab creation, the closure it caused and
\* every badge refresh in flight have completed, and nothing else has
\* happened, the badge shows min(maxWindow - tabs of the focused window,
\* maxTotal - tabs in total) of the final tab state, in whatever order the
\* queries of the overlapping refreshes returned.
C32_BadgeConverges ==
    (/\ opt.displayBadge /\ BadgeQuiet /\ events = MaxEvents
     /\ \E t \in TabIds : cyc[t].act = "removed")
        => badge = badgeText(opt, WindowCount(focused), TotalCount)

\* the creation has been handled, nothing is in flight, and the badge does not
\* show the remaining count of the tabs that are open
BadgeStale ==
    /\ opt.displayBadge /\ BadgeQuiet /\ budget = 0
    /\ badge # badgeText(opt, WindowCount(focused), TotalCount)

\* C33: the periodic timer re-triggers the badge independently of tab events:
\* a badge left stale is corrected once the timer has fired.
C33_TimerBackstop ==
    BadgeStale ~> (badge = badgeText(opt, WindowCount(focused), TotalCount))

\* ------------------------------------------------------------------ C34
\* a step that is a call of getDomainCounts
GetDomainCountsCall ==
    ret'.fn = "getDomainCounts" /\ store' = store /\ (cacheFresh => cacheFresh')

\* the Map m holds exactly the counted tabs of every domain, as a query made
\* now returns them
CountsOfNow(m) ==
    /\ \A i \in 1..Len(m) : m[i].tabCount = DomainCount(m[i].domain)
    /\ \A t \in CountedTabs : mapHas(m, domainOf[tabs[t].url])

\* C34: a call of getDomainCounts queries the tabs exactly when the cached Map
\* is empty or older than updateInterval: otherwise it returns the cached Map
\* and leaves it as it is; the call that follows clearCache() queries again.
C34_CacheStaleness ==
    [][GetDomainCountsCall =>
          /\ (cacheFresh /\ domainCounts # << >>) =>
                (ret'.value = domainCounts /\ domainCounts' = domainCounts /\ cacheFresh')
          /\ (~cacheFresh \/ domainCounts = << >>) =>
                (CountsOfNow(ret'.value) /\ domainCounts' = ret'.value /\ cacheFresh')
          /\ ret.fn = "clearCache" =>
                (CountsOfNow(ret'.value) /\ domainCounts' = ret'.value /\ cacheFresh')]_vars

\* a call within updateInterval of the refresh returned the cached Map, which
\* no longer holds the counts of the tabs: a tab is counted now that was not
C34_Witness ==
    /\ ret.fn = "getDomainCounts" /\ cacheFresh
    /\ ret.value = domainCounts
    /\ ~CountsOfNow(ret.value)

\* ------------------------------------------------------------------ C35
\* the tabs whose creation was handled, the tabs the cycles removed, and the
\* counted tabs that were open before the first creation
CreatedTabs == {t \in TabIds : cyc[t].pc # "none"}
RemovedTabs == {t \in TabIds : cyc[t].act = "removed"}
InitialCount == TotalCount + Cardinality(RemovedTabs) - Cardinality(CreatedTabs)

\* no cycle was entered or has acted for the window or the domain category
OnlyTotalInvolved ==
    \A t \in TabIds : cyc[t].place \in {"none", "total"} /\ cyc[t].under \in {"none", "total"}

\* C35: when the tabs of a burst are created from n <= maxTotal counted tabs
\* and only the total limit is involved, then after all cycles have finished
\* exactly min(n + k, maxTotal) counted tabs are open: no more tabs are
\* removed than the limit requires.
C35_NoOverClosing ==
    (/\ Settled /\ budget = 0 /\ opt.maxTotal >= 1
     /\ InitialCount <= opt.maxTotal /\ OnlyTotalInvolved)
        => TotalCount = Min2(InitialCount + Cardinality(CreatedTabs), opt.maxTotal)

\* ------------------------------------------------------------------ C36
\* C36: when a cycle moves its tab into an open window, that window holds at
\* most maxWindow counted tabs once the tab is in it, also when several cycles
\* look for a destination at the same time.
C36_DestinationNotOverfilled ==
    [][\A t \in TabIds :
          (cyc[t].act = "none" /\ cyc'[t].act = "moved") =>
              Cardinality({u \in TabIds : /\ tabs'[u].win = tabs'[t].win
                                          /\ (opt.countPinnedTabs \/ ~tabs'[u].pinned)})
                  <= opt.maxWindow]_vars

\* ------------------------------------------------------------------ C37
\* C37: a cycle creates at most one notification, and creates it only when a
\* command for its tab took effect: in the step that removes the tab or gives
\* it a new window, or after the tab was moved; a cycle that has notified
\* does nothing more.
C37_NotificationMatchesAction ==
    [][\A t \in TabIds :
          /\ (~cyc[t].notified /\ cyc'[t].notified) =>
                /\ cyc'[t].act # "none"
                /\ (tabs'[t] # tabs[t] \/ cyc[t].act = "moved")
          /\ cyc[t].notified => cyc'[t] = cyc[t]]_vars

\* ------------------------------------------------------------------ C38
\* C38: a step of the cycle of tab t changes no tab but t, opens no tab (a tab
\* that is gone stays gone) and leaves the stored settings as they are.
C38_CycleFrame ==
    [][\A t \in TabIds :
          (cyc[t].pc # "none" /\ cyc'[t] # cyc[t]) =>
              /\ \A u \in TabIds \ {t} : tabs'[u] = tabs[u] /\ cyc'[u] = cyc[u]
              /\ ~Exists(t) => tabs'[t] = tabs[t]
              /\ store' = store]_vars

\* one cycle has moved its tab and another has removed its own, next to the
\* two tabs that were open before and the settings as they were
C38_Witness ==
    /\ \E t, u \in TabIds : cyc[t].act = "moved" /\ cyc[u].act = "removed" /\ Exists(t)
    /\ Exists(1) /\ Exists(2)
    /\ store = orig

\* ------------------------------------------------------------------ C39
\* the sum of the counts of the Map m
RECURSIVE SumCounts(_)
SumCounts(m) == IF m = << >> THEN 0 ELSE m[1].tabCount + SumCounts(Tail(m))

\* a step in which getDomainCounts rebuilds the Map
CacheRefreshed == (~cacheFresh \/ domainCounts = << >>) /\ cacheFresh'

\* C39: after a refresh the counts of the Map add up to the number of tabs the
\* query returned, every one of those tabs is counted under exactly one key,
\* its domain, and no key is held with a count below 1.
C39_CountsPartition ==
    [][CacheRefreshed =>
          /\ SumCounts(domainCounts') = Cardinality(CountedTabs)
          /\ \A t \in CountedTabs :
                Cardinality({i \in 1..Len(domainCounts') :
                                domainCounts'[i].domain = domainOf[tabs[t].url]}) = 1
          /\ \A i \in 1..Len(domainCounts') :
                /\ domainCounts'[i].tabCount >= 1
                /\ \E t \in CountedTabs : domainOf[tabs[t].url] = domainCounts'[i].domain]_vars

\* a refresh has counted four tabs under two keys, one of them three times
C39_Witness ==
    /\ cacheFresh /\ Len(domainCounts) = 2
    /\ SumCounts(domainCounts) = 4
    /\ TotalCount = 4
    /\ \E i \in 1..2 : domainCounts[i].tabCount = 3

\* ------------------------------------------------------------------ C40
\* C40: the tabs with a sentinel key are counted together under it, and the
\* first pass closes a new tab under "domain" exactly when the counted tabs of
\* its key, the new tab among them, are at least maxDomain, for a sentinel
\* key as for a web domain.
C40_SentinelKeysLimited ==
    [][\A t \in TabIds :
          (cyc[t].pc = "domain1" /\ cyc'[t].pc # "domain1" /\ opt.maxDomain >= 1) =>
              LET key == domainOf[cyc[t].url]
              IN /\ mapGet(domainCounts', key) = DomainCount(key)
                 /\ (cyc'[t].act = "removed" /\ cyc'[t].under = "domain" /\ tabs'[t].win = 0)
                        <=> DomainCount(key) >= opt.maxDomain]_vars

\* next to an extension page a new-tab page was opened and closed under
\* "domain": two tabs of the key "system" with maxDomain = 2
C40_Witness ==
    /\ opt.maxDomain = 2
    /\ tabs[2].url = UrlExtension /\ ~tabs[2].pinned
    /\ \E t \in TabIds :
          /\ cyc[t].url = UrlNewTab /\ domainOf[cyc[t].url] = <<"system">>
          /\ cyc[t].pc = "done" /\ cyc[t].act = "removed" /\ cyc[t].under = "domain"
          /\ ~Exists(t)
    /\ mapGet(domainCounts, <<"system">>) = 2
====
